---- MODULE Spec2Model ----
(***************************************************************************)
(* Call-ingestion state machine (polling worker, manual retry, single      *)
(* upload) and the retrieval engine of speech-to-rag-engine.               *)
(*                                                                         *)
(* Every `await` of the handlers is one step of a run, so that runs of     *)
(* different requests interleave exactly where the event loop lets them.   *)
(* Confidences are kept in tenths (0.5 is 5).                              *)
(***************************************************************************)
EXTENDS Integers, Sequences, FiniteSets, TLC

\* ---- bounds of the model ----
NumCalls == 2
MaxRuns == 2
MaxChunks == 1
NumIds == 2
MaxLimit == 2
MaxSim == 2
MaxTexts == 2
MaxVectors == 2
MaxEmbedCalls == 3
MaxNewer == 2
MaxPollCalls == 7
MaxBeyond == 1
MaxSyncs == 2
MaxEntryChunks == 2
MaxBatchChunks == 11
MaxFiles == 3

\* ---- program constants ----
BATCH_LIMIT == 5
BlankThreshold == 50
FallbackConfidence == 5
EmbedMaxRetries == 5
JitterLimit == 1000
maxRetries == 3
HistoryLimit == 20
PromptTurns == 10
BATCH_SIZE == 10
batchSize == 20

\* A run record: kind is the request that started it ("poll", "manual",
\* "single"), pc the await it is at; classifier is what the classifier request of
\* this run came back with, classifyCalls how many such requests it made; retry
\* tells a manual run that was started on a call in a terminal status.
VARIABLES
    schemaCheck,        \* TRUE: the status CHECK of the migration is in force
    status,             \* call_recordings.status per call id, "absent" = no row
    error_reason,       \* call_recordings.error_reason per call id
    chunk_count,        \* call_recordings.chunk_count per call id
    call_transcripts,   \* number of call_transcripts rows per call id
    call_classifications, \* number of call_classifications rows per call id
    rag_chunks,         \* number of rag_chunks rows with source_id = call id
    phone_call_mapping, \* number of phone_call_mapping rows per call id
    runs,               \* one record per started processCall / POST run
    polls,              \* the poller passes that have not responded: their run ids
    r_fn,               \* the retrieval entry point that was called, or "none"
    r_fileIds,          \* its fileIds argument
    r_callIds,          \* its callIds argument
    r_limit,            \* its limit argument
    r_callChunks,       \* the rows the query over the call chunks gave, unfiltered
    r_beyond,           \* call chunks of the index that query's LIMIT cut off
    r_all,              \* the rows the similarity queries gave, as collected
    r_rpc,              \* number of similarity-search calls it issued
    r_threw,            \* TRUE when it ended with an exception
    r_result,           \* the matches it returned
    embeddingCache,     \* Map<string, number[]>: the vector cached per text, 0 = no entry
    emb,                \* the current invocation of embedTextWithRateLimit
    emb_invocations,    \* number of invocations of embedTextWithRateLimit so far
    emb_remote,         \* remote embedding calls issued so far, per text
    emb_cachedAfter,    \* remote calls issued by the invocation that cached the text
    mapping,            \* the phone_document_mapping row of the business number, or NoRow
    whatsapp_messages,  \* the conversation with the customer and what the handler wrote
    ga,                 \* the invocation of generateAutoResponse: locals and calls made
    p_status,           \* a call_recordings table as one poller pass finds it: status per id
    p_started,          \* the calls that pass started processCall for, in order
    p_pass,             \* "none", "rows" (table filled) or "started"
    shopify_chunks,     \* the shopify_chunks rows of the store: <<content_type, chunk_text, sync>>
    last_synced_at,     \* shopify_stores.last_synced_at: the sync that stamped it, 0 = null
    sync,               \* the invocation of processShopifyStore: position, catalog, what it found
    eb,                 \* the embedding stage of one ingestion run: its requests and delays
    bu                  \* one POST /api/bulk-upload-calls: files, storage, rows, results

ingVars == <<schemaCheck, status, error_reason, chunk_count, call_transcripts,
             call_classifications, rag_chunks, phone_call_mapping, runs, polls>>

retVars == <<r_fn, r_fileIds, r_callIds, r_limit, r_callChunks, r_beyond, r_all, r_rpc, r_threw,
             r_result>>

embVars == <<embeddingCache, emb, emb_invocations, emb_remote, emb_cachedAfter>>

ansVars == <<mapping, whatsapp_messages, ga>>

pollVars == <<p_status, p_started, p_pass>>

syncVars == <<shopify_chunks, last_synced_at, sync>>

extVars == <<syncVars, eb, bu>>

libVars == <<embVars, ansVars, pollVars, extVars>>

vars == <<ingVars, retVars, libVars>>

\* Call ids are handed out in upload order: a smaller id is an older uploaded_at.
Calls == 1..NumCalls
RunIds == 1..MaxRuns

Null == "null"

\* Sample trimmed transcript lengths on both sides of the blank threshold.
TrimLens == {0, BlankThreshold - 1, BlankThreshold}

\* The values the schema admits for call_recordings.status.
CheckStatuses ==
    {"uploaded", "transcribing", "spam", "blank", "11za_related", "approved"}

TerminalStatuses ==
    {"blank", "spam", "11za_related", "irrelevant", "approved", "failed"}

\* ---- classification ----

\* A JSON field value: absent, a boolean or a number.
Undef == [t |-> "undef", b |-> FALSE, n |-> 0]
JBool(b) == [t |-> "bool", b |-> b, n |-> 0]
JNum(n) == [t |-> "num", b |-> FALSE, n |-> n]

Falsy(v) == v.t = "undef" \/ (v.t = "bool" /\ ~v.b) \/ (v.t = "num" /\ v.n = 0)

\* JavaScript `x || false` and `x || 0`.
OrFalse(v) == IF Falsy(v) THEN FALSE ELSE v.b
OrZero(v) == IF Falsy(v) THEN 0 ELSE v.n

\* The JSON objects the classifier may answer with.
EmptyJson ==
    [isBlank |-> Undef, isSpam |-> Undef, is11zaRelated |-> Undef,
     blankConfidence |-> Undef, spamConfidence |-> Undef,
     relevanceConfidence |-> Undef]

ClassifierJson ==
    {[isBlank |-> JBool(b), isSpam |-> JBool(s), is11zaRelated |-> JBool(r),
      blankConfidence |-> JNum(9), spamConfidence |-> JNum(9),
      relevanceConfidence |-> JNum(9)] : b \in BOOLEAN, s \in BOOLEAN, r \in BOOLEAN}
    \cup {EmptyJson}

\* The request throws, the answer has no content, or the content is not JSON.
ClassifierFailures == {"throws", "no_content", "bad_json"}

\* What one completion request of the classifier can come back with.
ClassifierOutcomes ==
    {[kind |-> "json", json |-> j] : j \in ClassifierJson}
    \cup {[kind |-> f, json |-> EmptyJson] : f \in ClassifierFailures}

NoClassification == [isBlank |-> FALSE, isSpam |-> FALSE, is11zaRelated |-> FALSE,
                     blankConfidence |-> 0, spamConfidence |-> 0,
                     relevanceConfidence |-> 0]

FallbackClassification_AtMost(trimLen) ==
    [isBlank |-> trimLen <= BlankThreshold, isSpam |-> FALSE,
     is11zaRelated |-> FALSE,
     blankConfidence |-> FallbackConfidence,
     spamConfidence |-> FallbackConfidence,
     relevanceConfidence |-> FallbackConfidence]

\* The catch block of classifyTranscript.
FallbackClassification(trimLen) ==
    [isBlank |-> trimLen < BlankThreshold, isSpam |-> FALSE,
     is11zaRelated |-> FALSE,
     blankConfidence |-> FallbackConfidence,
     spamConfidence |-> FallbackConfidence,
     relevanceConfidence |-> FallbackConfidence]

\* classifyTranscript: one completion request; any failure yields the fallback.
classifyTranscript(trimLen, outcome) ==
    IF outcome.kind \in ClassifierFailures
    THEN FallbackClassification(trimLen)
    ELSE [isBlank |-> OrFalse(outcome.json.isBlank),
          isSpam |-> OrFalse(outcome.json.isSpam),
          is11zaRelated |-> OrFalse(outcome.json.is11zaRelated),
          blankConfidence |-> OrZero(outcome.json.blankConfidence),
          spamConfidence |-> OrZero(outcome.json.spamConfidence),
          relevanceConfidence |-> OrZero(outcome.json.relevanceConfidence)]

FinalStatusWorker_SpamFirst(cls) ==
    IF cls.isSpam THEN "spam"
    ELSE IF cls.isBlank THEN "blank"
    ELSE IF cls.is11zaRelated THEN "11za_related"
    ELSE "irrelevant"

\* "Determine final status" of processCall.
FinalStatusWorker(cls) ==
    IF cls.isBlank THEN "blank"
    ELSE IF cls.isSpam THEN "spam"
    ELSE IF cls.is11zaRelated THEN "11za_related"
    ELSE "irrelevant"

\* "Determine final status" of POST /api/process-call.
FinalStatusSingle(cls) ==
    IF cls.isBlank THEN "blank"
    ELSE IF cls.isSpam THEN "spam"
    ELSE IF cls.is11zaRelated THEN "11za_related"
    ELSE "approved"

\* ---- the store ----

\* The CHECK constraint on call_recordings.status.
Accepts(s) == ~schemaCheck \/ s \in CheckStatuses

\* update({status: s}).eq('id', c): the error of the update is never read.
\* A rejected update changes nothing in the row.
StatusAfterUpdate(c, s) ==
    IF status[c] # "absent" /\ Accepts(s) THEN [status EXCEPT ![c] = s] ELSE status

\* ---- runs ----

NoRun == [kind |-> "none", call |-> 0, pc |-> "none", trimLen |-> 0,
          cls |-> NoClassification, finalStatus |-> "none", err |-> "none",
          nChunks |-> 0, classifier |-> "none", classifyCalls |-> 0,
          retry |-> FALSE]

\* A run whose handler has returned: its locals are gone.
DoneRun == [NoRun EXCEPT !.kind = "finished", !.pc = "done"]

FreeRuns == {r \in RunIds : runs[r].kind = "none"}

Min(S) == CHOOSE x \in S : \A y \in S : x <= y

AbsentCalls == {c \in Calls : status[c] = "absent"}

storeVars == <<status, error_reason, chunk_count, call_transcripts,
               call_classifications, rag_chunks, phone_call_mapping>>

\* ---- uploads ----

\* POST /api/bulk-upload-calls, one accepted file: a row in status 'uploaded'.
BulkUploadFile ==
    /\ AbsentCalls # {}
    /\ status' = [status EXCEPT ![Min(AbsentCalls)] = "uploaded"]
    /\ UNCHANGED <<schemaCheck, error_reason, chunk_count, call_transcripts,
                   call_classifications, rag_chunks, phone_call_mapping, runs, polls, retVars, libVars>>

\* ---- GET /api/process-calls-worker ----

\* .eq('status','uploaded').order('uploaded_at', ascending).limit(5)
RECURSIVE OldestFirst(_, _)
OldestFirst(S, n) ==
    IF S = {} \/ n = 0 THEN <<>>
    ELSE <<Min(S)>> \o OldestFirst(S \ {Min(S)}, n - 1)

SelectPending_AnyStatus(st, ids) == OldestFirst(ids, BATCH_LIMIT)

SelectPending(st, ids) == OldestFirst({c \in ids : st[c] = "uploaded"}, BATCH_LIMIT)

PendingCalls == SelectPending(status, Calls)

\* The k smallest free run slots, in order.
FreeSlots(k) == OldestFirst(FreeRuns, k)

StartedRun(kind, c) ==
    [NoRun EXCEPT !.kind = kind, !.call = c, !.pc = "fetch",
                  !.retry = (kind = "manual" /\ status[c] \in TerminalStatuses)]

\* One pass of the poller: processCall is started for every selected call.
WorkerGET ==
    LET pending == PendingCalls
        slots == FreeSlots(Len(pending))
    IN /\ Len(pending) > 0
       /\ Len(slots) = Len(pending)
       /\ runs' = [r \in RunIds |->
                     IF \E i \in 1..Len(slots) : slots[i] = r
                     THEN StartedRun("poll",
                              pending[CHOOSE i \in 1..Len(slots) : slots[i] = r])
                     ELSE runs[r]]
       /\ polls' = polls \cup {{slots[i] : i \in 1..Len(slots)}}
       /\ UNCHANGED <<schemaCheck, storeVars, retVars, libVars>>

\* POST /api/process-calls-worker {callId}: processCall on that id, whatever
\* the call's status is.
WorkerPOST(c) ==
    /\ FreeRuns # {}
    /\ runs' = [runs EXCEPT ![Min(FreeRuns)] = StartedRun("manual", c)]
    /\ UNCHANGED <<schemaCheck, storeVars, polls, retVars, libVars>>

\* await Promise.allSettled(processingPromises): the pass P goes on to its
\* response when run r settles and every other run it started has settled.
AllSettled_Any(P, r) == TRUE

AllSettled(P, r) == \A x \in P \ {r} : runs[x].pc = "done"

\* Run r returns: the passes waiting for it alone respond.
Settled(r) == polls' = {P \in polls : ~(r \in P /\ AllSettled(P, r))}

\* ---- the select of a pass on a table of up to MaxPollCalls rows ----

PollCalls == 1..MaxPollCalls

PollStatuses == {"uploaded", "transcribing", "11za_related"}

InitPoll ==
    /\ p_status = [c \in PollCalls |-> "absent"]
    /\ p_started = <<>>
    /\ p_pass = "none"

\* The rows of call_recordings when the pass arrives.
PollRows ==
    /\ p_pass = "none"
    /\ p_status' \in [PollCalls -> PollStatuses]
    /\ p_pass' = "rows"
    /\ UNCHANGED <<p_started, ingVars, retVars, embVars, ansVars, extVars>>

\* GET: the select, then pendingCalls.map(call => processCall(call.id)).
PollGET ==
    /\ p_pass = "rows"
    /\ p_started' = SelectPending(p_status, PollCalls)
    /\ p_pass' = "started"
    /\ UNCHANGED <<p_status, ingVars, retVars, embVars, ansVars, extVars>>

NextPoll == PollRows \/ PollGET

\* ---- processCall, one step per await ----

IsWorkerRun(r) == runs[r].kind \in {"poll", "manual"}

Goto(r, pc) == runs' = [runs EXCEPT ![r].pc = pc]

\* An exception reaches the catch of the handler; the locals of the try block
\* are out of scope there.
Throw(r, msg) ==
    runs' = [runs EXCEPT ![r] = [NoRun EXCEPT !.kind = runs[r].kind,
                                              !.call = runs[r].call,
                                              !.retry = runs[r].retry,
                                              !.pc = "catch", !.err = msg]]

\* select ... .eq('id', callId).single()
PC_Fetch(r) ==
    /\ IsWorkerRun(r) /\ runs[r].pc = "fetch"
    /\ \/ /\ status[runs[r].call] # "absent"
          /\ Goto(r, "setTranscribing")
       \/ Throw(r, "Call record not found")
    /\ UNCHANGED <<schemaCheck, storeVars, polls, retVars, libVars>>

PC_SetTranscribing_ViaUploaded(r) ==
    /\ IsWorkerRun(r) /\ runs[r].pc = "setTranscribing"
    /\ status' = StatusAfterUpdate(runs[r].call,
                     IF runs[r].retry /\ status[runs[r].call] # "uploaded"
                     THEN "uploaded" ELSE "transcribing")
    /\ Goto(r, IF runs[r].retry /\ status[runs[r].call] # "uploaded"
               THEN "setTranscribing" ELSE "download")
    /\ UNCHANGED <<schemaCheck, error_reason, chunk_count, call_transcripts,
                   call_classifications, rag_chunks, phone_call_mapping, polls, retVars, libVars>>

\* "Update status to processing"
PC_SetTranscribing(r) ==
    /\ IsWorkerRun(r) /\ runs[r].pc = "setTranscribing"
    /\ status' = StatusAfterUpdate(runs[r].call, "transcribing")
    /\ Goto(r, "download")
    /\ UNCHANGED <<schemaCheck, error_reason, chunk_count, call_transcripts,
                   call_classifications, rag_chunks, phone_call_mapping, polls, retVars, libVars>>

PC_Download(r) ==
    /\ IsWorkerRun(r) /\ runs[r].pc = "download"
    /\ \/ Goto(r, "transcribe")
       \/ Throw(r, "Failed to download audio file")
    /\ UNCHANGED <<schemaCheck, storeVars, polls, retVars, libVars>>

PC_Transcribe(r) ==
    /\ IsWorkerRun(r) /\ runs[r].pc = "transcribe"
    /\ \/ \E t \in TrimLens :
             runs' = [runs EXCEPT ![r].pc = "setClassifying", ![r].trimLen = t]
       \/ Throw(r, "Failed to transcribe audio")
    /\ UNCHANGED <<schemaCheck, storeVars, polls, retVars, libVars>>

PC_SetClassifying(r) ==
    /\ IsWorkerRun(r) /\ runs[r].pc = "setClassifying"
    /\ status' = StatusAfterUpdate(runs[r].call, "classifying")
    /\ Goto(r, "classify")
    /\ UNCHANGED <<schemaCheck, error_reason, chunk_count, call_transcripts,
                   call_classifications, rag_chunks, phone_call_mapping, polls, retVars, libVars>>

PC_Classify(r) ==
    /\ IsWorkerRun(r) /\ runs[r].pc = "classify"
    /\ \E outcome \in ClassifierOutcomes :
          runs' = [runs EXCEPT ![r].pc = "saveTranscript",
                               ![r].cls = classifyTranscript(runs[r].trimLen, outcome),
                               ![r].classifier = outcome.kind,
                               ![r].classifyCalls = @ + 1,
                               ![r].trimLen = 0]
    /\ UNCHANGED <<schemaCheck, storeVars, polls, retVars, libVars>>

\* insert into call_transcripts; an error is only logged.
PC_SaveTranscript(r) ==
    /\ IsWorkerRun(r) /\ runs[r].pc = "saveTranscript"
    /\ \/ call_transcripts' = [call_transcripts EXCEPT ![runs[r].call] = @ + 1]
       \/ UNCHANGED call_transcripts
    /\ Goto(r, "saveClassification")
    /\ UNCHANGED <<schemaCheck, status, error_reason, chunk_count,
                   call_classifications, rag_chunks, phone_call_mapping, polls, retVars, libVars>>

\* insert into call_classifications (an error is only logged), then the final
\* status is determined.
PC_SaveClassification(r) ==
    /\ IsWorkerRun(r) /\ runs[r].pc = "saveClassification"
    /\ \/ call_classifications' = [call_classifications EXCEPT ![runs[r].call] = @ + 1]
       \/ UNCHANGED call_classifications
    /\ LET fs == FinalStatusWorker(runs[r].cls)
       IN runs' = [runs EXCEPT ![r].finalStatus = fs,
                               ![r].pc = IF fs = "11za_related" THEN "setChunking"
                                         ELSE "setFinal"]
    /\ UNCHANGED <<schemaCheck, status, error_reason, chunk_count,
                   call_transcripts, rag_chunks, phone_call_mapping, polls, retVars, libVars>>

\* The inner catch of the chunking stage: the error is logged, the final
\* status becomes 'failed'.
ChunkingFailed(r) ==
    runs' = [runs EXCEPT ![r].pc = "setFinal", ![r].finalStatus = "failed",
                         ![r].nChunks = 0]

PC_SetChunking(r) ==
    /\ IsWorkerRun(r) /\ runs[r].pc = "setChunking"
    /\ status' = StatusAfterUpdate(runs[r].call, "chunking")
    /\ Goto(r, "chunk")
    /\ UNCHANGED <<schemaCheck, error_reason, chunk_count, call_transcripts,
                   call_classifications, rag_chunks, phone_call_mapping, polls, retVars, libVars>>

\* chunkText(transcript): some number of chunks, or an exception.
PC_Chunk(r) ==
    /\ IsWorkerRun(r) /\ runs[r].pc = "chunk"
    /\ \/ \E n \in 0..MaxChunks :
             runs' = [runs EXCEPT ![r].pc = "embed", ![r].nChunks = n]
       \/ ChunkingFailed(r)
    /\ UNCHANGED <<schemaCheck, storeVars, polls, retVars, libVars>>

\* Promise.all(chunks.map(embedText)): all embeddings, or the first rejection.
PC_Embed(r) ==
    /\ IsWorkerRun(r) /\ runs[r].pc = "embed"
    /\ \/ Goto(r, "insertChunks")
       \/ /\ runs[r].nChunks > 0
          /\ ChunkingFailed(r)
    /\ UNCHANGED <<schemaCheck, storeVars, polls, retVars, libVars>>

\* One insert of all chunk rows; on an error nothing is stored.
PC_InsertChunks(r) ==
    /\ IsWorkerRun(r) /\ runs[r].pc = "insertChunks"
    /\ \/ /\ rag_chunks' = [rag_chunks EXCEPT ![runs[r].call] = @ + runs[r].nChunks]
          /\ Goto(r, "setChunkCount")
       \/ /\ UNCHANGED rag_chunks
          /\ ChunkingFailed(r)
    /\ UNCHANGED <<schemaCheck, status, error_reason, chunk_count,
                   call_transcripts, call_classifications, phone_call_mapping, polls, retVars, libVars>>

PC_SetChunkCount(r) ==
    /\ IsWorkerRun(r) /\ runs[r].pc = "setChunkCount"
    /\ chunk_count' = IF status[runs[r].call] # "absent"
                      THEN [chunk_count EXCEPT ![runs[r].call] = runs[r].nChunks]
                      ELSE chunk_count
    /\ runs' = [runs EXCEPT ![r].pc = "setFinal", ![r].nChunks = 0]
    /\ UNCHANGED <<schemaCheck, status, error_reason, call_transcripts,
                   call_classifications, rag_chunks, phone_call_mapping, polls, retVars, libVars>>

\* update({status: finalStatus, processed_at}): error_reason is not written.
PC_SetFinal(r) ==
    /\ IsWorkerRun(r) /\ runs[r].pc = "setFinal"
    /\ status' = StatusAfterUpdate(runs[r].call, runs[r].finalStatus)
    /\ runs' = [runs EXCEPT ![r] = DoneRun]
    /\ Settled(r)
    /\ UNCHANGED <<schemaCheck, error_reason, chunk_count, call_transcripts,
                   call_classifications, rag_chunks, phone_call_mapping, retVars, libVars>>

\* The outer catch: update({status: 'failed', error_reason: message}).
PC_Catch(r) ==
    /\ IsWorkerRun(r) /\ runs[r].pc = "catch"
    /\ status' = StatusAfterUpdate(runs[r].call, "failed")
    /\ error_reason' = IF status[runs[r].call] # "absent" /\ Accepts("failed")
                       THEN [error_reason EXCEPT ![runs[r].call] = runs[r].err]
                       ELSE error_reason
    /\ runs' = [runs EXCEPT ![r] = DoneRun]
    /\ Settled(r)
    /\ UNCHANGED <<schemaCheck, chunk_count, call_transcripts,
                   call_classifications, rag_chunks, phone_call_mapping, retVars, libVars>>

processCall(r) ==
    \/ PC_Fetch(r) \/ PC_SetTranscribing(r) \/ PC_Download(r) \/ PC_Transcribe(r)
    \/ PC_SetClassifying(r) \/ PC_Classify(r) \/ PC_SaveTranscript(r)
    \/ PC_SaveClassification(r) \/ PC_SetChunking(r) \/ PC_Chunk(r)
    \/ PC_Embed(r) \/ PC_InsertChunks(r) \/ PC_SetChunkCount(r)
    \/ PC_SetFinal(r) \/ PC_Catch(r)

\* ---- POST /api/process-call, one step per await ----

IsSingleRun(r) == runs[r].kind = "single"

\* The request is accepted and the call row is inserted in status 'uploaded';
\* on an insert error callId stays null and the handler answers 500.
SP_Insert ==
    /\ FreeRuns # {} /\ AbsentCalls # {}
    /\ LET r == Min(FreeRuns)
           c == Min(AbsentCalls)
       IN \/ /\ status' = [status EXCEPT ![c] = "uploaded"]
             /\ runs' = [runs EXCEPT ![r] =
                           [NoRun EXCEPT !.kind = "single", !.call = c,
                                         !.pc = "transcribe"]]
          \/ /\ UNCHANGED status
             /\ runs' = [runs EXCEPT ![r] = DoneRun]
    /\ UNCHANGED <<schemaCheck, error_reason, chunk_count, call_transcripts,
                   call_classifications, rag_chunks, phone_call_mapping, polls, retVars, libVars>>

SP_Transcribe(r) ==
    /\ IsSingleRun(r) /\ runs[r].pc = "transcribe"
    /\ \/ \E t \in TrimLens :
             runs' = [runs EXCEPT ![r].pc = "setTranscribing", ![r].trimLen = t]
       \/ Throw(r, "Failed to transcribe audio")
    /\ UNCHANGED <<schemaCheck, storeVars, polls, retVars, libVars>>

\* The status 'transcribing' is written once the transcript is there.
SP_SetTranscribing(r) ==
    /\ IsSingleRun(r) /\ runs[r].pc = "setTranscribing"
    /\ status' = StatusAfterUpdate(runs[r].call, "transcribing")
    /\ Goto(r, "saveTranscript")
    /\ UNCHANGED <<schemaCheck, error_reason, chunk_count, call_transcripts,
                   call_classifications, rag_chunks, phone_call_mapping, polls, retVars, libVars>>

SP_SaveTranscript(r) ==
    /\ IsSingleRun(r) /\ runs[r].pc = "saveTranscript"
    /\ \/ /\ call_transcripts' = [call_transcripts EXCEPT ![runs[r].call] = @ + 1]
          /\ Goto(r, "classify")
       \/ /\ UNCHANGED call_transcripts
          /\ Throw(r, "transcript insert error")
    /\ UNCHANGED <<schemaCheck, status, error_reason, chunk_count,
                   call_classifications, rag_chunks, phone_call_mapping, polls, retVars, libVars>>

SP_Classify(r) ==
    /\ IsSingleRun(r) /\ runs[r].pc = "classify"
    /\ \E outcome \in ClassifierOutcomes :
          runs' = [runs EXCEPT ![r].pc = "saveClassification",
                               ![r].cls = classifyTranscript(runs[r].trimLen, outcome),
                               ![r].classifier = outcome.kind,
                               ![r].classifyCalls = @ + 1,
                               ![r].trimLen = 0]
    /\ UNCHANGED <<schemaCheck, storeVars, polls, retVars, libVars>>

SP_SaveClassification(r) ==
    /\ IsSingleRun(r) /\ runs[r].pc = "saveClassification"
    /\ \/ /\ call_classifications' =
                [call_classifications EXCEPT ![runs[r].call] = @ + 1]
          /\ LET fs == FinalStatusSingle(runs[r].cls)
             IN runs' = [runs EXCEPT ![r].finalStatus = fs,
                                     ![r].pc = IF fs = "11za_related" THEN "chunk"
                                               ELSE "setFinal"]
       \/ /\ UNCHANGED call_classifications
          /\ Throw(r, "classification insert error")
    /\ UNCHANGED <<schemaCheck, status, error_reason, chunk_count,
                   call_transcripts, rag_chunks, phone_call_mapping, polls, retVars, libVars>>

\* chunkText(transcript, 1500) without blank chunks; none is an error.
SP_Chunk(r) ==
    /\ IsSingleRun(r) /\ runs[r].pc = "chunk"
    /\ \/ \E n \in 1..MaxChunks :
             runs' = [runs EXCEPT ![r].pc = "embed", ![r].nChunks = n]
       \/ Throw(r, "No text chunks produced from transcript")
       \/ Throw(r, "chunkText")
    /\ UNCHANGED <<schemaCheck, storeVars, polls, retVars, libVars>>

\* The embedding batches: every embedding, or an exception.
SP_Embed(r) ==
    /\ IsSingleRun(r) /\ runs[r].pc = "embed"
    /\ \/ Goto(r, "insertChunks")
       \/ Throw(r, "embedText")
       \/ Throw(r, "Failed to generate embedding for chunk")
    /\ UNCHANGED <<schemaCheck, storeVars, polls, retVars, libVars>>

SP_InsertChunks(r) ==
    /\ IsSingleRun(r) /\ runs[r].pc = "insertChunks"
    /\ \/ /\ rag_chunks' = [rag_chunks EXCEPT ![runs[r].call] = @ + runs[r].nChunks]
          /\ runs' = [runs EXCEPT ![r].pc = "insertMapping", ![r].nChunks = 0]
       \/ /\ UNCHANGED rag_chunks
          /\ Throw(r, "chunk insert error")
    /\ UNCHANGED <<schemaCheck, status, error_reason, chunk_count,
                   call_transcripts, call_classifications, phone_call_mapping, polls, retVars, libVars>>

\* insert into phone_call_mapping, after the chunks are stored.
SP_InsertMapping(r) ==
    /\ IsSingleRun(r) /\ runs[r].pc = "insertMapping"
    /\ \/ /\ phone_call_mapping' = [phone_call_mapping EXCEPT ![runs[r].call] = @ + 1]
          /\ Goto(r, "setFinal")
       \/ /\ UNCHANGED phone_call_mapping
          /\ Throw(r, "mapping insert error")
    /\ UNCHANGED <<schemaCheck, status, error_reason, chunk_count,
                   call_transcripts, call_classifications, rag_chunks, polls, retVars, libVars>>

SP_SetFinal(r) ==
    /\ IsSingleRun(r) /\ runs[r].pc = "setFinal"
    /\ status' = StatusAfterUpdate(runs[r].call, runs[r].finalStatus)
    /\ runs' = [runs EXCEPT ![r] = DoneRun]
    /\ UNCHANGED <<schemaCheck, error_reason, chunk_count, call_transcripts,
                   call_classifications, rag_chunks, phone_call_mapping, polls, retVars, libVars>>

\* The catch of the handler: update({status: 'failed'}), no error_reason.
SP_Catch(r) ==
    /\ IsSingleRun(r) /\ runs[r].pc = "catch"
    /\ status' = StatusAfterUpdate(runs[r].call, "failed")
    /\ runs' = [runs EXCEPT ![r] = DoneRun]
    /\ UNCHANGED <<schemaCheck, error_reason, chunk_count, call_transcripts,
                   call_classifications, rag_chunks, phone_call_mapping, polls, retVars, libVars>>

processCallPOST(r) ==
    \/ SP_Transcribe(r) \/ SP_SetTranscribing(r) \/ SP_SaveTranscript(r)
    \/ SP_Classify(r) \/ SP_SaveClassification(r) \/ SP_Chunk(r) \/ SP_Embed(r)
    \/ SP_InsertChunks(r) \/ SP_InsertMapping(r) \/ SP_SetFinal(r) \/ SP_Catch(r)

\* ---- embedding with cache and rate-limit handling (src/lib/phoneMapping.ts) ----

Texts == 1..MaxTexts
Vectors == 1..MaxVectors
NoVector == 0

\* Math.random() * 1000: sample jitters at both ends of [0, 1000).
Jitters == {0, JitterLimit - 1}

\* What embedText(text, 0) throws: an error with statusCode 429, one whose
\* message names the rate limit, or any other error.
EmbedErrorKinds == {"statusCode429", "messageRateLimit", "other"}

NoError == [kind |-> "none", attempt |-> 0]

isRateLimit_Any(error) == TRUE

isRateLimit(error) == error.kind \in {"statusCode429", "messageRateLimit"}

RECURSIVE Pow2(_)
Pow2(n) == IF n = 0 THEN 1 ELSE 2 * Pow2(n - 1)

WaitTime_WideJitter(attempt, jitter) == Pow2(attempt) * 1000 + 2 * jitter

\* baseWait + jitter, in milliseconds
WaitTime(attempt, jitter) == Pow2(attempt) * 1000 + jitter

IdleEmbed ==
    [pc |-> "idle", text |-> 0, attempt |-> 0, calls |-> 0, waits |-> <<>>,
     lastError |-> NoError, hit |-> FALSE, result |-> NoVector, thrown |-> NoError]

InitEmbed ==
    /\ embeddingCache = [t \in Texts |-> NoVector]
    /\ emb = IdleEmbed
    /\ emb_invocations = 0
    /\ emb_remote = [t \in Texts |-> 0]
    /\ emb_cachedAfter = [t \in Texts |-> 0]

CacheHit_Never(text) == FALSE

\* cache.has(text)
CacheHit(text) == embeddingCache[text] # NoVector

\* Entry of embedTextWithRateLimit(text, cache): a cached text is answered
\* from the cache, any other text enters the attempt loop.
embedTextWithRateLimit ==
    /\ emb.pc \in {"idle", "returned", "threw"}
    /\ emb_invocations < MaxEmbedCalls
    /\ emb_invocations' = emb_invocations + 1
    /\ \E text \in Texts :
          emb' = IF CacheHit(text)
                 THEN [IdleEmbed EXCEPT !.pc = "returned", !.text = text, !.hit = TRUE,
                                        !.result = embeddingCache[text]]
                 ELSE [IdleEmbed EXCEPT !.pc = "attempt", !.text = text]
    /\ UNCHANGED <<embeddingCache, emb_remote, emb_cachedAfter>>
    /\ UNCHANGED <<ingVars, retVars, ansVars, pollVars, extVars>>

\* One pass of the loop: embedText(text, 0) either gives a vector, which is
\* cached and returned, or throws; a rate-limit error before the last attempt
\* is waited out and the loop continues, any other error is thrown on.
ET_Attempt ==
    /\ emb.pc = "attempt"
    /\ emb.attempt < EmbedMaxRetries
    /\ emb_remote' = [emb_remote EXCEPT ![emb.text] = @ + 1]
    /\ \/ \E embedding \in Vectors :
            /\ embeddingCache' = [embeddingCache EXCEPT ![emb.text] = embedding]
            /\ emb_cachedAfter' = [emb_cachedAfter EXCEPT ![emb.text] = emb.calls + 1]
            /\ emb' = [emb EXCEPT !.pc = "returned", !.calls = @ + 1,
                                  !.result = embedding]
       \/ \E kind \in EmbedErrorKinds, jitter \in Jitters :
            LET error == [kind |-> kind, attempt |-> emb.attempt]
            IN /\ emb' = IF isRateLimit(error) /\ emb.attempt < EmbedMaxRetries - 1
                         THEN [emb EXCEPT !.calls = @ + 1, !.lastError = error,
                                          !.attempt = @ + 1,
                                          !.waits = Append(@, WaitTime(emb.attempt, jitter))]
                         ELSE [emb EXCEPT !.pc = "threw", !.calls = @ + 1,
                                          !.lastError = error, !.thrown = error]
               /\ (isRateLimit(error) /\ emb.attempt < EmbedMaxRetries - 1) \/ jitter = 0
               /\ UNCHANGED <<embeddingCache, emb_cachedAfter>>
    /\ UNCHANGED emb_invocations
    /\ UNCHANGED <<ingVars, retVars, ansVars, pollVars, extVars>>

NextEmbed ==
    \/ embedTextWithRateLimit
    \/ ET_Attempt

\* ---- the mapping directory and generateAutoResponse ----

NoRow == [exists |-> FALSE, data_source |-> Null, credentials |-> FALSE,
          shopify_store_id |-> Null]

\* The rows phone_document_mapping may hold for the business number;
\* credentials tells whether auth_token and origin are both set.
MappingRows ==
    [exists : {TRUE}, data_source : {Null, "file", "shopify"}, credentials : BOOLEAN,
     shopify_store_id : {Null, "store"}]

\* The conversation sizes that matter around the two limits.
ConversationLengths ==
    {0, 1, PromptTurns, PromptTurns + 1, HistoryLimit} \cup
    {HistoryLimit + k : k \in 1..MaxNewer}

\* retrySupabaseQuery's progress: the attempt the loop is at (maxRetries + 1
\* once the loop is left), the invocations of queryFn, the sleeps in ms.
IdleQuery == [attempt |-> 1, calls |-> 0, sleeps |-> <<>>, done |-> FALSE]

\* One invocation of queryFn inside retrySupabaseQuery and what follows it.
retrySupabaseQuery(q, isError) ==
    IF q.attempt <= maxRetries
    THEN IF ~isError
         THEN [q EXCEPT !.calls = @ + 1, !.done = TRUE]
         ELSE [q EXCEPT !.calls = @ + 1, !.attempt = @ + 1,
                        !.sleeps = IF q.attempt < maxRetries
                                   THEN Append(@, q.attempt * 1000) ELSE @]
    ELSE [q EXCEPT !.calls = @ + 1, !.done = TRUE]

NoResult == [success |-> FALSE, noDocuments |-> FALSE, sent |-> "absent",
             response |-> Null, error |-> "none"]

IdleAnswer ==
    [pc |-> "idle", q |-> IdleQuery, dataSource |-> "unset", failedLookup |-> FALSE,
     embedCalls |-> 0, retrievalCalls |-> 0, generateCalls |-> 0, sendCalls |-> 0,
     historyLoaded |-> FALSE, history |-> <<>>, response |-> Null, sendResult |-> "none", result |-> NoResult]

InitAnswer ==
    /\ mapping = NoRow
    /\ whatsapp_messages =
          [rows |-> 0, noText |-> {},
           orig |-> [auto_respond_sent |-> Null, response_sent_at |-> Null],
           outbound |-> <<>>, rejected |-> {}]
    /\ ga = IdleAnswer

\* return { success: false, ... } and the returns of the catch block
Return(g, result) == [g EXCEPT !.pc = "done", !.result = result]

Failure_NoError(error) == NoResult

Failure(error) == [NoResult EXCEPT !.error = error]

NoDocuments(error) == [NoResult EXCEPT !.noDocuments = TRUE, !.error = error]

\* A message arrives: the mapping row of the business number and the earlier
\* messages of the customer (received_at 1..rows, some without text) are as
\* the store holds them.
generateAutoResponse ==
    /\ ga.pc = "idle"
    /\ mapping' \in MappingRows \cup {NoRow}
    /\ \E n \in ConversationLengths, noText \in SUBSET {1, HistoryLimit + 1} :
          /\ noText \subseteq 1..n
          /\ whatsapp_messages' = [whatsapp_messages EXCEPT !.rows = n, !.noText = noText]
    /\ ga' = [ga EXCEPT !.pc = "dataSource"]
    /\ UNCHANGED <<ingVars, retVars, embVars, pollVars, extVars>>

\* The error of a lookup that reaches the store: none, or PGRST116 when
\* .single() finds no row.
LookupTruth(pc) ==
    CASE pc = "dataSource" -> IF mapping.exists THEN "none" ELSE "PGRST116"
      [] pc = "mappings" -> "none"
      [] pc = "shopifyStore" ->
            IF mapping.exists /\ mapping.shopify_store_id # Null THEN "none" ELSE "PGRST116"

NoDataSource_Never(dataSource) == FALSE

\* !dataSource
NoDataSource(dataSource) == dataSource = Null

\* getDataSourceForPhone: null for any error, else data_source || 'file'.
getDataSourceForPhone(error) ==
    IF error # "none" THEN Null
    ELSE IF mapping.data_source = Null THEN "file" ELSE mapping.data_source

MissingCredentials_Never(row) == FALSE

\* !auth_token || !origin
MissingCredentials(row) == ~row.credentials

\* What the handler does with the outcome of a finished lookup.
AfterLookup(g, error) ==
    CASE g.pc = "dataSource" ->
            LET dataSource == getDataSourceForPhone(error)
                g1 == [g EXCEPT !.dataSource = dataSource]
            IN IF NoDataSource(dataSource)
               THEN Return(g1, NoDocuments("No data source mapped to this business number"))
               ELSE [g1 EXCEPT !.pc = "mappings"]
      [] g.pc = "mappings" ->
            IF error # "none" \/ ~mapping.exists
            THEN Return(g, Failure("Failed to fetch phone mapping details"))
            ELSE IF MissingCredentials(mapping)
            THEN Return(g, Failure("No WhatsApp API credentials found"))
            ELSE [g EXCEPT !.pc = "embed"]
      [] g.pc = "shopifyStore" ->
            IF error # "none"
            THEN Return(g, NoDocuments("No Shopify store mapped to this business number"))
            ELSE [g EXCEPT !.pc = "search"]

\* One invocation of queryFn by a lookup that goes through retrySupabaseQuery
\* (getDataSourceForPhone, the mapping details, getShopifyStoreForPhoneNumber):
\* the store answers, or the connection or query fails.
GA_Lookup ==
    /\ ga.pc \in {"dataSource", "mappings", "shopifyStore"}
    /\ \E error \in {"connection", LookupTruth(ga.pc)} :
          LET q == retrySupabaseQuery(IF ga.q.done THEN IdleQuery ELSE ga.q,
                                      error # "none")
              g == [ga EXCEPT !.q = q,
                              !.failedLookup = @ \/ (q.done /\ error = "connection")]
          IN ga' = IF q.done THEN AfterLookup(g, error) ELSE g
    /\ UNCHANGED <<mapping, whatsapp_messages>>
    /\ UNCHANGED <<ingVars, retVars, embVars, pollVars, extVars>>

\* embedText(messageText): a vector, nothing, or an exception.
GA_Embed ==
    /\ ga.pc = "embed"
    /\ \E outcome \in {"vector", "empty", "throws"} :
          LET g == [ga EXCEPT !.embedCalls = @ + 1]
          IN ga' = CASE outcome = "vector" ->
                          [g EXCEPT !.pc = IF g.dataSource = "shopify"
                                           THEN "shopifyStore" ELSE "filesAndCalls"]
                     [] outcome = "empty" ->
                          Return(g, Failure("Failed to generate embedding for message"))
                     [] outcome = "throws" -> Return(g, Failure("embedText"))
    /\ UNCHANGED <<mapping, whatsapp_messages>>
    /\ UNCHANGED <<ingVars, retVars, embVars, pollVars, extVars>>

\* getFilesForPhoneNumber and getCallsForPhoneNumber: the mapped ids, or the
\* empty list when the query fails.
GA_FilesAndCalls ==
    /\ ga.pc = "filesAndCalls"
    /\ \E files \in 0..1, calls \in 0..1, failed \in BOOLEAN :
          LET fileIds == IF failed THEN 0 ELSE files
              callIds == IF failed THEN 0 ELSE calls
              g == [ga EXCEPT !.failedLookup = @ \/ failed]
          IN ga' = IF fileIds = 0 /\ callIds = 0
                   THEN Return(g, NoDocuments("No documents or calls mapped to this business number"))
                   ELSE [g EXCEPT !.pc = "search"]
    /\ UNCHANGED <<mapping, whatsapp_messages>>
    /\ UNCHANGED <<ingVars, retVars, embVars, pollVars, extVars>>

GA_Search_MarksAttempt ==
    /\ ga.pc = "search"
    /\ \E threw \in BOOLEAN :
          LET g == [ga EXCEPT !.retrievalCalls = @ + 1]
          IN ga' = IF threw THEN [g EXCEPT !.pc = "markFailed"]
                   ELSE [g EXCEPT !.pc = "history"]
    /\ UNCHANGED <<mapping, whatsapp_messages>>
    /\ UNCHANGED <<ingVars, retVars, embVars, pollVars, extVars>>

\* retrieveRelevantShopifyChunks / retrieveRelevantChunksForPhone
GA_Search ==
    /\ ga.pc = "search"
    /\ \E threw \in BOOLEAN :
          LET g == [ga EXCEPT !.retrievalCalls = @ + 1]
          IN ga' = IF threw THEN Return(g, Failure("match_documents"))
                   ELSE [g EXCEPT !.pc = "history"]
    /\ UNCHANGED <<mapping, whatsapp_messages>>
    /\ UNCHANGED <<ingVars, retVars, embVars, pollVars, extVars>>

\* .order("received_at", { ascending: true }).limit(20): the received_at of the
\* rows the history query gives for a conversation of n messages.
HistoryRows(n) == [i \in 1..(IF n < HistoryLimit THEN n ELSE HistoryLimit) |-> i]

\* .slice(-k)
Last(q, k) == SubSeq(q, IF Len(q) > k THEN Len(q) - k + 1 ELSE 1, Len(q))

\* The turns put in the prompt: the rows with text, then history.slice(-10).
PromptHistory(rows, noText) ==
    Last(SelectSeq(rows, LAMBDA m : m \notin noText), PromptTurns)

\* Load the conversation history; a failed query leaves it empty.
GA_History ==
    /\ ga.pc = "history"
    /\ \E failed \in BOOLEAN :
          ga' = [ga EXCEPT !.pc = "generate", !.historyLoaded = ~failed,
                           !.history = IF failed THEN <<>>
                                       ELSE PromptHistory(HistoryRows(whatsapp_messages.rows),
                                                          whatsapp_messages.noText)]
    /\ UNCHANGED <<mapping, whatsapp_messages>>
    /\ UNCHANGED <<ingVars, retVars, embVars, pollVars, extVars>>

\* groq.chat.completions.create: a text, no content, or an exception.
GA_Generate ==
    /\ ga.pc = "generate"
    /\ \E outcome \in {"text", "empty", "throws"} :
          LET g == [ga EXCEPT !.generateCalls = @ + 1]
          IN ga' = CASE outcome = "text" -> [g EXCEPT !.pc = "send", !.response = "reply"]
                     [] outcome = "empty" -> Return(g, Failure("No response generated from LLM"))
                     [] outcome = "throws" -> Return(g, Failure("groq"))
    /\ UNCHANGED <<mapping, whatsapp_messages>>
    /\ UNCHANGED <<ingVars, retVars, embVars, pollVars, extVars>>

\* send(toKey, text, credentials) -> {success, error?}
SendOutcomes == {"ok", "failed"}

\* sendWhatsAppMessage(fromNumber, response, auth_token, origin)
GA_Send ==
    /\ ga.pc = "send"
    /\ \E outcome \in SendOutcomes :
          ga' = [ga EXCEPT !.sendCalls = @ + 1, !.sendResult = outcome,
                           !.pc = IF outcome = "ok" THEN "storeReply" ELSE "markFailed"]
    /\ UNCHANGED <<mapping, whatsapp_messages>>
    /\ UNCHANGED <<ingVars, retVars, embVars, pollVars, extVars>>

\* A write to whatsapp_messages that the store answers with an error: nothing
\* is written, and the handler does not read the error.
Rejected(write) == [whatsapp_messages EXCEPT !.rejected = @ \cup {write}]

SendFailedResult_NoText(response) ==
    [NoResult EXCEPT !.sent = "false", !.error = "Generated response but failed to send"]

SendFailedResult(response) ==
    [NoResult EXCEPT !.response = response, !.sent = "false",
                     !.error = "Generated response but failed to send"]

\* "Still mark as attempted in database", then the result of a failed delivery.
GA_MarkFailed ==
    /\ ga.pc = "markFailed"
    /\ \/ whatsapp_messages' =
             [whatsapp_messages EXCEPT !.orig = [auto_respond_sent |-> "false",
                                                 response_sent_at |-> "now"]]
       \/ whatsapp_messages' = Rejected("markFailed")
    /\ ga' = Return(ga, SendFailedResult(ga.response))
    /\ UNCHANGED mapping
    /\ UNCHANGED <<ingVars, retVars, embVars, pollVars, extVars>>

OutboundRow_Inbound(fromNumber, toNumber, response) ==
    [from_number |-> fromNumber, to_number |-> toNumber, content_text |-> response,
     event_type |-> "MtMessage"]

\* The row that keeps the reply for the conversation history.
OutboundRow(fromNumber, toNumber, response) ==
    [from_number |-> toNumber, to_number |-> fromNumber, content_text |-> response,
     event_type |-> "MtMessage"]

\* A variant that reads the error of the insert and throws it.
GA_StoreReply_Checked ==
    /\ ga.pc = "storeReply"
    /\ \/ /\ whatsapp_messages' =
                [whatsapp_messages EXCEPT
                    !.outbound = Append(@, OutboundRow("customer", "business", ga.response))]
          /\ ga' = [ga EXCEPT !.pc = "markResponded"]
       \/ /\ whatsapp_messages' = Rejected("storeReply")
          /\ ga' = Return(ga, Failure("insert"))
    /\ UNCHANGED mapping
    /\ UNCHANGED <<ingVars, retVars, embVars, pollVars, extVars>>

\* Store the reply of a delivered message; the result of the insert is dropped.
GA_StoreReply ==
    /\ ga.pc = "storeReply"
    /\ \/ whatsapp_messages' =
             [whatsapp_messages EXCEPT
                 !.outbound = Append(@, OutboundRow("customer", "business", ga.response))]
       \/ whatsapp_messages' = Rejected("storeReply")
    /\ ga' = [ga EXCEPT !.pc = "markResponded"]
    /\ UNCHANGED mapping
    /\ UNCHANGED <<ingVars, retVars, embVars, pollVars, extVars>>

\* Mark the originating message as responded and return the reply.
GA_MarkResponded ==
    /\ ga.pc = "markResponded"
    /\ \/ whatsapp_messages' =
             [whatsapp_messages EXCEPT !.orig = [auto_respond_sent |-> "true",
                                                 response_sent_at |-> "now"]]
       \/ whatsapp_messages' = Rejected("markResponded")
    /\ ga' = Return(ga, [NoResult EXCEPT !.success = TRUE, !.response = ga.response,
                                         !.sent = "true"])
    /\ UNCHANGED mapping
    /\ UNCHANGED <<ingVars, retVars, embVars, pollVars, extVars>>

NextAnswer ==
    \/ generateAutoResponse
    \/ GA_Lookup
    \/ GA_Embed
    \/ GA_FilesAndCalls
    \/ GA_Search
    \/ GA_History
    \/ GA_Generate
    \/ GA_Send
    \/ GA_MarkFailed
    \/ GA_StoreReply
    \/ GA_MarkResponded

InitRetrieval ==
    /\ r_fn = "none"
    /\ r_fileIds = <<>>
    /\ r_callIds = <<>>
    /\ r_limit = 0
    /\ r_callChunks = <<>>
    /\ r_beyond = <<>>
    /\ r_all = <<>>
    /\ r_rpc = 0
    /\ r_threw = FALSE
    /\ r_result = <<>>

\* A store that was connected and never synced.
InitSync ==
    /\ shopify_chunks = {}
    /\ last_synced_at = 0
    /\ sync = [pc |-> "idle", n |-> 0, catalog |-> <<>>, kind |-> 0, i |-> 0,
               before |-> {}, beforeSynced |-> 0]

InitBatch ==
    eb = [pc |-> "idle", path |-> "none", n |-> 0, next |-> 0, inflight |-> {},
          sinceDelay |-> 0]

InitBulk ==
    bu = [pc |-> "idle", files |-> <<>>, i |-> 0, st |-> <<>>, objects |-> {}, rows |-> {},
          uploadFailed |-> {}, insertFailed |-> {}, removeFailed |-> {},
          uploaded |-> <<>>, failed |-> <<>>, success |-> TRUE, response |-> "none"]

Init ==
    /\ InitRetrieval
    /\ InitEmbed
    /\ InitAnswer
    /\ InitPoll
    /\ InitSync
    /\ InitBatch
    /\ InitBulk
    /\ schemaCheck \in BOOLEAN
    /\ status = [c \in Calls |-> "absent"]
    /\ error_reason = [c \in Calls |-> Null]
    /\ chunk_count = [c \in Calls |-> 0]
    /\ call_transcripts = [c \in Calls |-> 0]
    /\ call_classifications = [c \in Calls |-> 0]
    /\ rag_chunks = [c \in Calls |-> 0]
    /\ phone_call_mapping = [c \in Calls |-> 0]
    /\ runs = [r \in RunIds |-> NoRun]
    /\ polls = {}

\* ---- retrieval (src/lib/retrieval.ts) ----

Ids == 1..NumIds
Limits == 1..MaxLimit
Sims == 1..MaxSim

\* Sequences over S of length at most n.
RECURSIVE SeqsUpTo(_, _)
SeqsUpTo(S, n) ==
    IF n = 0 THEN {<<>>}
    ELSE LET shorter == SeqsUpTo(S, n - 1)
         IN shorter \cup {Append(q, x) : q \in {t \in shorter : Len(t) = n - 1}, x \in S}

Range(q) == {q[i] : i \in 1..Len(q)}

\* ---- processShopifyStore: one sync of a store's catalog, one step per await ----

\* processProducts, processPages and processCollections, in the order processAllData
\* runs them.
ContentTypes == <<"product", "page", "collection">>

ChunkTexts == {"a", "b"}

\* What the catalog provider holds at the time of a sync: per content type the
\* non-empty chunks of the entries the loop visits, in order.
Catalogs == [1..Len(ContentTypes) -> SeqsUpTo(ChunkTexts, MaxEntryChunks)]

\* A sync starts; before and beforeSynced record what it found.
Sync_Start ==
    /\ sync.pc = "idle"
    /\ sync.n < MaxSyncs
    /\ \E catalog \in Catalogs :
         sync' = [pc |-> "store", n |-> sync.n + 1, catalog |-> catalog, kind |-> 0,
                  i |-> 0, before |-> shopify_chunks, beforeSynced |-> last_synced_at]
    /\ UNCHANGED <<shopify_chunks, last_synced_at>>
    /\ UNCHANGED <<ingVars, retVars, embVars, ansVars, pollVars, eb, bu>>

\* The select of the shopify_stores row: `if (error || !store) throw`.
Sync_SelectStore ==
    /\ sync.pc = "store"
    /\ \/ sync' = [sync EXCEPT !.pc = "clear"]
       \/ sync' = [sync EXCEPT !.pc = "failed"]
    /\ UNCHANGED <<shopify_chunks, last_synced_at>>
    /\ UNCHANGED <<ingVars, retVars, embVars, ansVars, pollVars, eb, bu>>

\* clearExistingChunks: delete from shopify_chunks where store_id, throws on error.
Sync_ClearExistingChunks ==
    /\ sync.pc = "clear"
    /\ \/ /\ shopify_chunks' = {}
          /\ sync' = [sync EXCEPT !.pc = "fetch", !.kind = 1]
       \/ /\ sync' = [sync EXCEPT !.pc = "failed"]
          /\ UNCHANGED shopify_chunks
    /\ UNCHANGED last_synced_at
    /\ UNCHANGED <<ingVars, retVars, embVars, ansVars, pollVars, eb, bu>>

\* Where the sync goes once the chunks of content type k are all handled.
AfterKind(k) ==
    IF k < Len(ContentTypes) THEN [sync EXCEPT !.pc = "fetch", !.kind = k + 1, !.i = 0]
    ELSE [sync EXCEPT !.pc = "stamp", !.i = 0]

\* Where the sync goes once chunk i of the current content type is handled.
AfterChunk ==
    IF sync.i < Len(sync.catalog[sync.kind]) THEN [sync EXCEPT !.pc = "embed", !.i = @ + 1]
    ELSE AfterKind(sync.kind)

\* getProducts / getPages / getCollections: the entries come back, or the request
\* throws out of processAllData.
Sync_Fetch ==
    /\ sync.pc = "fetch"
    /\ \/ sync' = IF sync.catalog[sync.kind] = <<>> THEN AfterKind(sync.kind)
                  ELSE [sync EXCEPT !.pc = "embed", !.i = 1]
       \/ sync' = [sync EXCEPT !.pc = "failed"]
    /\ UNCHANGED <<shopify_chunks, last_synced_at>>
    /\ UNCHANGED <<ingVars, retVars, embVars, ansVars, pollVars, eb, bu>>

\* storeChunk, first await: embedText returns a vector, or throws or returns
\* nothing and storeChunk throws.
Sync_EmbedChunk ==
    /\ sync.pc = "embed"
    /\ \/ sync' = [sync EXCEPT !.pc = "insert"]
       \/ sync' = [sync EXCEPT !.pc = "failed"]
    /\ UNCHANGED <<shopify_chunks, last_synced_at>>
    /\ UNCHANGED <<ingVars, retVars, embVars, ansVars, pollVars, eb, bu>>

\* unique_store_content_chunk: a row of the store with this content type and text.
IsDuplicate(type, text) == \E row \in shopify_chunks : row[1] = type /\ row[2] = text

\* storeChunk, second await: the insert. 23505 is skipped, any other error thrown.
Sync_InsertChunk ==
    /\ sync.pc = "insert"
    /\ LET type == ContentTypes[sync.kind]
           text == sync.catalog[sync.kind][sync.i]
       IN \/ /\ IsDuplicate(type, text)
             /\ sync' = AfterChunk
             /\ UNCHANGED shopify_chunks
          \/ /\ ~IsDuplicate(type, text)
             /\ shopify_chunks' = shopify_chunks \cup {<<type, text, sync.n>>}
             /\ sync' = AfterChunk
          \/ /\ sync' = [sync EXCEPT !.pc = "failed"]
             /\ UNCHANGED shopify_chunks
    /\ UNCHANGED last_synced_at
    /\ UNCHANGED <<ingVars, retVars, embVars, ansVars, pollVars, eb, bu>>

\* The update of last_synced_at; its result is not read.
Sync_UpdateLastSynced ==
    /\ sync.pc = "stamp"
    /\ \/ last_synced_at' = sync.n
       \/ UNCHANGED last_synced_at
    /\ sync' = [sync EXCEPT !.pc = "done"]
    /\ UNCHANGED shopify_chunks
    /\ UNCHANGED <<ingVars, retVars, embVars, ansVars, pollVars, eb, bu>>

\* The promise of processShopifyStore is settled; the store can be synced again.
Sync_Return ==
    /\ sync.pc \in {"done", "failed"}
    /\ sync' = [sync EXCEPT !.pc = "idle"]
    /\ UNCHANGED <<shopify_chunks, last_synced_at>>
    /\ UNCHANGED <<ingVars, retVars, embVars, ansVars, pollVars, eb, bu>>

NextSync ==
    \/ Sync_Start
    \/ Sync_SelectStore
    \/ Sync_ClearExistingChunks
    \/ Sync_Fetch
    \/ Sync_EmbedChunk
    \/ Sync_InsertChunk
    \/ Sync_UpdateLastSynced
    \/ Sync_Return

\* ---- the embedding stage of one run: which requests are in flight, and the delays ----

\* "worker": processCall of the worker route; "single": POST /api/process-call;
\* "catalog": the storeChunk loop of a catalog sync.
EmbedPaths == {"worker", "single", "catalog"}

\* The chunks whose embedText call the stage makes next, before it awaits again.
\* chunks.map(chunk => embedText(chunk)) makes the call of every chunk of the array
\* before Promise.all is awaited.
IssuedTogether(path, next, n) ==
    CASE path = "worker" -> next..n
      [] path = "single" -> next..Min({next + BATCH_SIZE - 1, n})
      [] path = "catalog" -> {next}

\* The stage starts on the n chunks of the run.
EB_Start ==
    /\ eb.pc = "idle"
    /\ \E path \in EmbedPaths, n \in 1..MaxBatchChunks :
         eb' = [pc |-> "issue", path |-> path, n |-> n, next |-> 1, inflight |-> {},
                sinceDelay |-> 0]
    /\ UNCHANGED <<ingVars, retVars, embVars, ansVars, pollVars, syncVars, bu>>

\* The embedText calls up to the next await.
EB_Issue ==
    /\ eb.pc = "issue"
    /\ LET batch == IssuedTogether(eb.path, eb.next, eb.n)
       IN eb' = [eb EXCEPT !.pc = "await",
                           !.inflight = batch,
                           !.next = @ + Cardinality(batch),
                           !.sinceDelay = @ + Cardinality(batch)]
    /\ UNCHANGED <<ingVars, retVars, embVars, ansVars, pollVars, syncVars, bu>>

\* Where the stage goes when every request it awaits has returned a vector: the
\* single-upload path waits BATCH_DELAY_MS when chunks remain, the others go on.
AfterBatch ==
    IF eb.next > eb.n THEN "done"
    ELSE IF eb.path = "single" THEN "delay"
    ELSE "issue"

\* One request in flight returns a vector.
EB_Resolve ==
    /\ eb.inflight # {}
    /\ \E i \in eb.inflight :
         eb' = [eb EXCEPT !.inflight = @ \ {i},
                          !.pc = IF eb.pc = "await" /\ eb.inflight = {i} THEN AfterBatch
                                 ELSE @]
    /\ UNCHANGED <<ingVars, retVars, embVars, ansVars, pollVars, syncVars, bu>>

\* One request in flight throws: the await rejects at once and the stage is left,
\* while the other requests of the batch stay in flight.
EB_Reject ==
    /\ eb.inflight # {}
    /\ \E i \in eb.inflight :
         eb' = [eb EXCEPT !.inflight = @ \ {i}, !.pc = "failed"]
    /\ UNCHANGED <<ingVars, retVars, embVars, ansVars, pollVars, syncVars, bu>>

\* setTimeout(resolve, BATCH_DELAY_MS) between two batches.
EB_Delay ==
    /\ eb.pc = "delay"
    /\ eb' = [eb EXCEPT !.pc = "issue", !.sinceDelay = 0]
    /\ UNCHANGED <<ingVars, retVars, embVars, ansVars, pollVars, syncVars, bu>>

NextBatch ==
    \/ EB_Start
    \/ EB_Issue
    \/ EB_Resolve
    \/ EB_Reject
    \/ EB_Delay

\* ---- POST /api/bulk-upload-calls: the files of one request ----

\* A submitted file: an audio file within the size limit, one whose type does not
\* start with 'audio/', or an audio file over the size limit.
FileKinds == {"audio", "notAudio", "tooLarge"}

\* files.slice(i, i + batchSize), as positions in files (from 1).
BatchOf(i, n) == i..Min({i + batchSize - 1, n})

\* batch.map(async (file) => ...): each callback runs to its first await. A file
\* that fails validation has its result at once, the others have their storage
\* upload under way.
BeginBatch(st, files, i) ==
    [f \in 1..Len(files) |->
        IF f \in BatchOf(i, Len(files))
        THEN IF files[f] = "audio" THEN "uploading" ELSE "failed"
        ELSE st[f]]

\* The request arrives: its form data cannot be read (500), it has no
\* phone_number (400), or it is taken on.
BU_Start ==
    /\ bu.pc = "idle"
    /\ \E files \in SeqsUpTo(FileKinds, MaxFiles) :
         \/ bu' = [bu EXCEPT !.pc = "check", !.files = files,
                             !.st = [f \in 1..Len(files) |-> "pending"]]
         \/ \E error \in {"error400", "error500"} :
              bu' = [bu EXCEPT !.pc = "done", !.files = files, !.response = error]
    /\ UNCHANGED <<ingVars, retVars, embVars, ansVars, pollVars, syncVars, eb>>

\* The results object is sent; success is false when a file failed.
Respond(b) == [b EXCEPT !.pc = "done", !.response = "results", !.success = (b.failed = <<>>)]

\* The select that checks the table, then the first batch.
BU_TableCheck ==
    /\ bu.pc = "check"
    /\ \/ bu' = [bu EXCEPT !.pc = "done", !.response = "error400"]
       \/ bu' = IF bu.files = <<>> THEN Respond(bu)
                ELSE [bu EXCEPT !.pc = "batch", !.i = 1,
                                !.st = BeginBatch(bu.st, bu.files, 1)]
    /\ UNCHANGED <<ingVars, retVars, embVars, ansVars, pollVars, syncVars, eb>>

\* storage.upload of file f returns: the object is stored, or uploadError (or a
\* throw, caught) makes the file's result a failure.
BU_Upload(f) ==
    /\ bu.pc = "batch"
    /\ bu.st[f] = "uploading"
    /\ \/ bu' = [bu EXCEPT !.st[f] = "inserting", !.objects = @ \cup {f}]
       \/ bu' = [bu EXCEPT !.st[f] = "failed", !.uploadFailed = @ \cup {f}]
    /\ UNCHANGED <<ingVars, retVars, embVars, ansVars, pollVars, syncVars, eb>>

BU_Insert_NoCleanup(f) ==
    /\ bu.pc = "batch"
    /\ bu.st[f] = "inserting"
    /\ \/ bu' = [bu EXCEPT !.st[f] = "uploaded", !.rows = @ \cup {f}]
       \/ bu' = [bu EXCEPT !.st[f] = "failed", !.insertFailed = @ \cup {f}]
    /\ UNCHANGED <<ingVars, retVars, embVars, ansVars, pollVars, syncVars, eb>>

\* The insert of the call_recordings row of file f (status 'uploaded') returns the
\* row, or dbError and the callback goes on to remove the object.
BU_Insert(f) ==
    /\ bu.pc = "batch"
    /\ bu.st[f] = "inserting"
    /\ \/ bu' = [bu EXCEPT !.st[f] = "uploaded", !.rows = @ \cup {f}]
       \/ bu' = [bu EXCEPT !.st[f] = "removing", !.insertFailed = @ \cup {f}]
    /\ UNCHANGED <<ingVars, retVars, embVars, ansVars, pollVars, syncVars, eb>>

\* storage.remove of the object of file f: its result is not read (a throw is
\* caught), the file's result is a failure either way.
BU_Remove(f) ==
    /\ bu.pc = "batch"
    /\ bu.st[f] = "removing"
    /\ \/ bu' = [bu EXCEPT !.st[f] = "failed", !.objects = @ \ {f}]
       \/ bu' = [bu EXCEPT !.st[f] = "failed", !.removeFailed = @ \cup {f}]
    /\ UNCHANGED <<ingVars, retVars, embVars, ansVars, pollVars, syncVars, eb>>

\* The files of the batch whose result is `result`, in the order of the batch.
BatchResults(result) ==
    LET batch == BatchOf(bu.i, Len(bu.files))
    IN SelectSeq([k \in 1..Cardinality(batch) |-> bu.i + k - 1],
                 LAMBDA f : bu.st[f] = result)

\* Promise.all(batchPromises) resolves: the results are pushed, then the next
\* batch starts or the response is sent.
BU_Collect ==
    /\ bu.pc = "batch"
    /\ \A f \in BatchOf(bu.i, Len(bu.files)) : bu.st[f] \in {"uploaded", "failed"}
    /\ LET collected == [bu EXCEPT !.uploaded = @ \o BatchResults("uploaded"),
                                   !.failed = @ \o BatchResults("failed")]
       IN bu' = IF bu.i + batchSize <= Len(bu.files)
                THEN [collected EXCEPT !.i = @ + batchSize,
                                       !.st = BeginBatch(bu.st, bu.files, bu.i + batchSize)]
                ELSE Respond(collected)
    /\ UNCHANGED <<ingVars, retVars, embVars, ansVars, pollVars, syncVars, eb>>

NextBulk ==
    \/ BU_Start
    \/ BU_TableCheck
    \/ \E f \in 1..Len(bu.files) : BU_Upload(f) \/ BU_Insert(f) \/ BU_Remove(f)
    \/ BU_Collect

\* Lists of distinct ids.
IdLists == {q \in SeqsUpTo(Ids, NumIds) : Cardinality(Range(q)) = Len(q)}

\* match_documents(query_embedding, match_count, target_file, source_types):
\* at most match_count rows (LIMIT match_count), ordered by the L2 distance of
\* the embeddings, while `similarity` is 1 - cosine distance: the similarities
\* of the rows come in no particular order.  A response is the list of the
\* rows' (similarity, source_id) pairs.
MatchDocuments(match_count, sources) ==
    SeqsUpTo(Sims \X sources, match_count)

\* The rows of a response; the id tells the chunks apart.
Rows(type, resp) ==
    [k \in 1..Len(resp) |->
        [id |-> <<type, resp[k][2], k>>, similarity |-> resp[k][1],
         source_type |-> type, source_id |-> resp[k][2]]]

RECURSIVE Flatten(_)
Flatten(qq) == IF qq = <<>> THEN <<>> ELSE Head(qq) \o Flatten(Tail(qq))

\* Array.prototype.sort((a, b) => b.similarity - a.similarity): a stable sort
\* by descending similarity.
\* A sort that puts a later element before the earlier ones it ties with.
RECURSIVE InsertSorted_TiesFirst(_, _)
InsertSorted_TiesFirst(sorted, x) ==
    IF sorted = <<>> THEN <<x>>
    ELSE IF Head(sorted).similarity > x.similarity
         THEN <<Head(sorted)>> \o InsertSorted_TiesFirst(Tail(sorted), x)
         ELSE <<x>> \o sorted

RECURSIVE InsertSorted(_, _)
InsertSorted(sorted, x) ==
    IF sorted = <<>> THEN <<x>>
    ELSE IF Head(sorted).similarity >= x.similarity
         THEN <<Head(sorted)>> \o InsertSorted(Tail(sorted), x)
         ELSE <<x>> \o sorted

RECURSIVE SortBySimilarity(_)
SortBySimilarity(q) ==
    IF q = <<>> THEN <<>>
    ELSE InsertSorted(SortBySimilarity(SubSeq(q, 1, Len(q) - 1)), q[Len(q)])

\* .slice(0, limit)
Slice(q, limit) == SubSeq(q, 1, IF Len(q) < limit THEN Len(q) ELSE limit)

TopN_NoSlice(all, limit) == SortBySimilarity(all)

\* "Sort by similarity and return top N"
TopN(all, limit) == Slice(SortBySimilarity(all), limit)

Returned(fn, fileIds, callIds, limit, callChunks, all, rpc, result) ==
    /\ r_fn' = fn
    /\ r_fileIds' = fileIds
    /\ r_callIds' = callIds
    /\ r_limit' = limit
    /\ r_callChunks' = callChunks
    /\ r_all' = all
    /\ r_rpc' = rpc
    /\ r_threw' = FALSE
    /\ r_result' = result

\* An RPC error is thrown through the entry point after rpc queries.
Threw(fn, fileIds, callIds, limit, rpc) ==
    /\ r_fn' = fn
    /\ r_fileIds' = fileIds
    /\ r_callIds' = callIds
    /\ r_limit' = limit
    /\ r_callChunks' = <<>>
    /\ r_all' = <<>>
    /\ r_rpc' = rpc
    /\ r_threw' = TRUE
    /\ r_result' = <<>>

\* One response per file id, in fileIds order.
FileResponses(fileIds, limit) ==
    {rr \in [1..Len(fileIds) -> MatchDocuments(limit, Ids)] :
        \A i \in 1..Len(fileIds) : \A k \in 1..Len(rr[i]) : rr[i][k][2] = fileIds[i]}

FileRows(fileIds, rr) == Flatten([i \in 1..Len(fileIds) |-> Rows("pdf", rr[i])])

retrieveRelevantChunksFromFiles ==
    /\ r_fn = "none"
    /\ \E fileIds \in IdLists, limit \in Limits :
         \/ /\ Len(fileIds) = 0
            /\ Returned("files", fileIds, <<>>, limit, <<>>, <<>>, 0, <<>>)
         \/ /\ Len(fileIds) = 1
            /\ \E rr \in FileResponses(fileIds, limit) :
                  Returned("files", fileIds, <<>>, limit, <<>>, FileRows(fileIds, rr), 1,
                           FileRows(fileIds, rr))
         \/ /\ Len(fileIds) > 1
            /\ \E rr \in FileResponses(fileIds, limit) :
                  Returned("files", fileIds, <<>>, limit, <<>>, FileRows(fileIds, rr),
                           Len(fileIds), TopN(FileRows(fileIds, rr), limit))
         \/ /\ Len(fileIds) > 0
            /\ \E failed \in 1..Len(fileIds) :
                  Threw("files", fileIds, <<>>, limit, failed)
    /\ r_beyond' = <<>>
    /\ UNCHANGED <<ingVars, libVars>>

\* The ids of the calls the index holds chunks of: the requested ones and others.
IndexedCalls == 1..(NumIds + 1)

\* LIMIT match_count: the call chunks of the index that come after the rows of
\* a full response, in the order of the index.
BeyondLimit(resp, match_count) ==
    IF Len(resp) = match_count /\ match_count > 0
    THEN SeqsUpTo(Sims \X IndexedCalls, MaxBeyond) ELSE {<<>>}

\* The query over the call chunks is issued only for a non-empty callIds.
CallQueries_Always(callIds) == 1

CallQueries(callIds) == IF Len(callIds) > 0 THEN 1 ELSE 0

\* callChunks.filter(chunk => callIds.includes(chunk.source_id))
FilterCalls_None(callChunks, callIds) == callChunks

FilterCalls(callChunks, callIds) ==
    SelectSeq(callChunks, LAMBDA chunk : chunk.source_id \in Range(callIds))

retrieveRelevantChunksForPhone ==
    /\ r_fn = "none"
    /\ \E fileIds \in IdLists, callIds \in IdLists, limit \in Limits :
         /\ Len(fileIds) + Len(callIds) <= NumIds
         /\ \/ \E rr \in FileResponses(fileIds, limit),
                  cr \in IF Len(callIds) > 0
                         THEN MatchDocuments(limit * Len(callIds), IndexedCalls)
                         ELSE {<<>>} :
                  LET callChunks == Rows("call", cr)
                      filteredCallChunks == FilterCalls(callChunks, callIds)
                      allChunks == FileRows(fileIds, rr) \o filteredCallChunks
                  IN /\ Returned("phone", fileIds, callIds, limit, callChunks, allChunks,
                                 Len(fileIds) + CallQueries(callIds),
                                 TopN(allChunks, limit))
                     /\ r_beyond' \in BeyondLimit(cr, limit * Len(callIds))
            \/ /\ \E failed \in 1..(Len(fileIds) + CallQueries(callIds)) :
                     Threw("phone", fileIds, callIds, limit, failed)
               /\ r_beyond' = <<>>
    /\ UNCHANGED <<ingVars, libVars>>

\* match_shopify_chunks(query_embedding, store_id_param, match_count); the rows
\* are mapped one to one, in the order the RPC gave them.
retrieveRelevantShopifyChunks ==
    /\ r_fn = "none"
    /\ \E storeId \in Ids, limit \in Limits :
         \/ \E resp \in MatchDocuments(limit, {storeId}) :
               Returned("shopify", <<>>, <<>>, limit, <<>>, Rows("shopify", resp), 1,
                        Rows("shopify", resp))
         \/ Threw("shopify", <<>>, <<>>, limit, 1)
    /\ r_beyond' = <<>>
    /\ UNCHANGED <<ingVars, libVars>>

NextRetrieval ==
    \/ retrieveRelevantChunksFromFiles
    \/ retrieveRelevantChunksForPhone
    \/ retrieveRelevantShopifyChunks

SpecRetrieval == Init /\ [][NextRetrieval]_vars

Next ==
    \/ BulkUploadFile
    \/ WorkerGET
    \/ \E c \in Calls : WorkerPOST(c)
    \/ SP_Insert
    \/ \E r \in RunIds : processCall(r)
    \/ \E r \in RunIds : processCallPOST(r)

Spec == Init /\ [][Next]_vars

\* The same handlers on a database whose call_recordings table predates the
\* migration (CREATE TABLE IF NOT EXISTS then leaves it without the CHECK).
InitNoCheck == Init /\ schemaCheck = FALSE

SpecNoCheck == InitNoCheck /\ [][Next]_vars

SpecEmbed == Init /\ [][NextEmbed]_vars

SpecAnswer == Init /\ [][NextAnswer]_vars

SpecPoll == Init /\ [][NextPoll]_vars

SpecSync == Init /\ [][NextSync]_vars

SpecBatch == Init /\ [][NextBatch]_vars

SpecBulk == Init /\ [][NextBulk]_vars

\* ---- the claims ----

\* The step that ends a run.
Ends(r) == runs[r].pc # "done" /\ runs'[r].pc = "done"

\* The exceptions of the chunk/embed/persist stage of POST /api/process-call.
ChunkStageErrors ==
    {"No text chunks produced from transcript", "chunkText", "embedText",
     "Failed to generate embedding for chunk", "chunk insert error",
     "mapping insert error"}

\* C1: in both ingestion paths a run whose chunk/embed/persist stage threw
\* ends by storing 'failed' (never '11za_related'), and no rag_chunks row with
\* the call's source_id exists afterwards.
C1_ChunkStageFailure ==
    [][\A r \in RunIds :
          (/\ Ends(r)
           /\ \/ IsWorkerRun(r) /\ runs[r].finalStatus = "failed"
              \/ IsSingleRun(r) /\ runs[r].err \in ChunkStageErrors)
          => /\ status'[runs[r].call] = "failed"
             /\ rag_chunks'[runs[r].call] = 0]_vars

\* C2: a processCall run whose download or transcription failed ends by
\* storing 'failed' with a non-null error_reason, having gone from the failing
\* step straight to the catch block and written no rag_chunks row.
C2_TranscriptionFailure ==
    [][\A r \in RunIds :
          /\ (/\ IsWorkerRun(r) /\ Ends(r)
              /\ runs[r].err \in {"Failed to download audio file",
                                  "Failed to transcribe audio"})
             => /\ status'[runs[r].call] = "failed"
                /\ error_reason'[runs[r].call] # Null
                /\ rag_chunks'[runs[r].call] = rag_chunks[runs[r].call]
          /\ (/\ IsWorkerRun(r) /\ runs[r].pc \in {"download", "transcribe"}
              /\ runs'[r].err # "none")
             => /\ runs'[r].pc = "catch"
                /\ status' = status]_vars

C4_RunEndsTerminal ==
    [][\A r \in RunIds :
          (IsWorkerRun(r) /\ Ends(r) /\ status[runs[r].call] # "absent")
          => status'[runs[r].call] \in TerminalStatuses]_vars

\* What the catch block of classifyTranscript is to return for a transcript of
\* this trimmed length.
C5_Fallback(trimLen) ==
    [isBlank |-> trimLen < 50, isSpam |-> FALSE, is11zaRelated |-> FALSE,
     blankConfidence |-> 5, spamConfidence |-> 5, relevanceConfidence |-> 5]

ClassifierFailed(r) == runs[r].classifier \in ClassifierFailures

\* C5: a failed classifier request is not repeated and does not throw; the
\* classification is then exactly the fallback (isBlank iff the trimmed
\* transcript is shorter than 50, nothing else set, every confidence 0.5), the
\* final status decided from it is 'blank' for a short transcript and never
\* 'failed', and 'blank' is what the run stores.
C5_ClassifierFallback ==
    [][\A r \in RunIds :
          /\ (runs[r].pc = "classify" /\ runs'[r].pc # "classify")
             => /\ runs'[r].pc # "catch"
                /\ runs'[r].classifyCalls = 1
                /\ runs'[r].classifier \in ClassifierFailures
                   => runs'[r].cls = C5_Fallback(runs[r].trimLen)
          /\ (ClassifierFailed(r) /\ runs'[r].pc # "catch")
             => /\ runs'[r].classifyCalls = 1 \/ runs'[r].pc = "done"
                /\ runs'[r].finalStatus # "failed"
                /\ runs'[r].finalStatus # "none" /\ runs[r].cls.isBlank
                   => runs'[r].finalStatus = "blank"
          /\ (ClassifierFailed(r) /\ runs[r].cls.isBlank /\ runs[r].pc = "setFinal"
              /\ Ends(r))
             => status'[runs[r].call] = "blank"]_vars

\* A run is about to store 'blank' for an empty or short transcript whose
\* classifier request failed.
C5_Witness ==
    \E r \in RunIds :
        /\ runs[r].pc = "setFinal"
        /\ runs[r].classifier \in ClassifierFailures
        /\ runs[r].cls = C5_Fallback(0)
        /\ runs[r].finalStatus = "blank"

\* The terminal states in priority order, with the flag that selects each; the
\* last one needs no flag.  The worker stores the irrelevant outcome as
\* 'irrelevant', POST /api/process-call stores it as 'approved'.
C6_Priority(cls, kind) ==
    <<[flag |-> cls.isBlank, state |-> "blank"],
      [flag |-> cls.isSpam, state |-> "spam"],
      [flag |-> cls.is11zaRelated, state |-> "11za_related"],
      [flag |-> TRUE, state |-> IF kind = "single" THEN "approved" ELSE "irrelevant"]>>

C6_First(cls, kind) ==
    LET p == C6_Priority(cls, kind)
        i == Min({k \in 1..Len(p) : p[k].flag})
    IN p[i].state

\* C6: for every combination of the three flags the final status chosen is
\* the first of blank, spam, relevant, irrelevant whose flag holds.
C6_StatusPriority ==
    [][\A r \in RunIds :
          (runs[r].pc = "saveClassification" /\ runs'[r].finalStatus # "none")
          => runs'[r].finalStatus = C6_First(runs[r].cls, runs[r].kind)]_vars

\* All three flags are set and 'blank' was chosen.
C6_Witness ==
    \E r \in RunIds :
        /\ runs[r].pc = "setFinal"
        /\ runs[r].cls.isBlank /\ runs[r].cls.isSpam /\ runs[r].cls.is11zaRelated
        /\ runs[r].finalStatus = "blank"

C8_PollerLeavesTerminal ==
    [][\A r \in RunIds :
          (/\ runs[r].kind = "poll" /\ runs'[r] # runs[r]
           /\ status[runs[r].call] \in TerminalStatuses)
          => status'[runs[r].call] = status[runs[r].call]]_vars

NonIncreasing(q) ==
    \A i \in 1..Len(q) : \A j \in 1..Len(q) :
        i < j => q[i].similarity >= q[j].similarity

\* C9: every retrieval entry point returns at most `limit` matches, ordered
\* by non-increasing similarity.
C9_RankedResult ==
    (r_fn # "none" /\ ~r_threw)
    => (Len(r_result) <= r_limit /\ NonIncreasing(r_result))

\* C10: for a set of document ids the result is the `limit` most similar
\* rows of the concatenated per-document results, all of them when there are
\* fewer: each is one of the collected rows, none twice, and no row left out
\* is more similar than a row returned.
C10_TopOfConcatenation ==
    (r_fn \in {"files", "phone"} /\ ~r_threw /\ Len(r_fileIds) > 0)
    => /\ Len(r_result) = (IF Len(r_all) < r_limit THEN Len(r_all) ELSE r_limit)
       /\ Range(r_result) \subseteq Range(r_all)
       /\ Cardinality(Range(r_result)) = Len(r_result)
       /\ \A x \in Range(r_all) \ Range(r_result) : \A y \in Range(r_result) :
             x.similarity <= y.similarity

\* Two documents gave `limit` rows each, `limit` rows were returned, and a
\* row of the second document displaced a less similar row of the first.
C10_Witness ==
    /\ r_fn = "files" /\ ~r_threw
    /\ Len(r_fileIds) = 2
    /\ Len(r_all) = 2 * r_limit
    /\ Len(r_result) = r_limit
    /\ r_limit > 1
    /\ \E x \in Range(r_all) \ Range(r_result) : x.source_id = r_fileIds[1]
    /\ \E y \in Range(r_result) : y.source_id = r_fileIds[2]

\* C11: retrieval over an empty scope (no file ids, no call ids) returns the
\* empty list and issues no similarity-search call.
C11_EmptyScope ==
    (r_fn \in {"files", "phone"} /\ Len(r_fileIds) = 0 /\ Len(r_callIds) = 0)
    => (~r_threw /\ r_result = <<>> /\ r_rpc = 0)

\* retrieveRelevantChunksForPhone was called with no file ids and no call ids.
C11_Witness ==
    r_fn = "phone" /\ Len(r_fileIds) = 0 /\ Len(r_callIds) = 0 /\ ~r_threw

\* C12: every match of source type 'call' that retrieveRelevantChunksForPhone
\* returns has a source_id among the requested callIds, whatever rows the
\* index gave.
C12_OnlyRequestedCalls ==
    (r_fn = "phone" /\ ~r_threw)
    => \A m \in Range(r_result) :
          m.source_type = "call" => m.source_id \in Range(r_callIds)

\* The index gave a chunk of a call outside callIds that is more similar than
\* every returned match, and fewer than `limit` matches were returned.
C12_Witness ==
    /\ r_fn = "phone" /\ ~r_threw
    /\ Len(r_callIds) > 0
    /\ Len(r_result) > 0 /\ Len(r_result) < r_limit
    /\ \E x \in Range(r_callChunks) :
          /\ x.source_id \notin Range(r_callIds)
          /\ \A m \in Range(r_result) : x.similarity > m.similarity

\* An invocation of embedTextWithRateLimit starts on a text the cache holds.
C15_SecondCall ==
    /\ emb_invocations' = emb_invocations + 1
    /\ embeddingCache[emb'.text] # NoVector

\* C15 as claimed: a call for a text that an earlier call cached returns the
\* cached vector, and the two calls together issued exactly one remote
\* embedding call.
C15_OneRemoteCall ==
    [][C15_SecondCall
       => /\ emb'.pc = "returned" /\ emb'.result = embeddingCache[emb'.text]
          /\ emb_remote' = emb_remote
          /\ emb_cachedAfter[emb'.text] = 1]_vars

\* C15 as amended: a call for a text that an earlier call cached issues no
\* remote call and returns the vector that call stored, which no later call
\* replaces; the call that stored it issued one remote call per attempt, one
\* more than the rate-limit errors it waited out and at most 5.
C15_CacheIdempotent ==
    [][/\ C15_SecondCall
          => /\ emb'.pc = "returned" /\ emb'.result = embeddingCache[emb'.text]
             /\ emb_remote' = emb_remote
             /\ emb_cachedAfter[emb'.text] \in 1..EmbedMaxRetries
       /\ \A t \in Texts :
             /\ embeddingCache[t] # NoVector => embeddingCache'[t] = embeddingCache[t]
             /\ (embeddingCache[t] = NoVector /\ embeddingCache'[t] # NoVector)
                => /\ emb'.result = embeddingCache'[t]
                   /\ emb_cachedAfter'[t] = Len(emb.waits) + 1]_vars

\* A text cached by a call that was rate-limited once is asked for again and
\* answered from the cache.
C15_Witness ==
    /\ emb.pc = "returned" /\ emb.hit
    /\ emb_cachedAfter[emb.text] = 2
    /\ emb_remote[emb.text] = 2

\* C16: a call that ends with a rate-limit error has made exactly 5 attempts
\* and throws the error of the last one; the waits between attempts never
\* decrease, and there are never more than 5 attempts.
C16_BoundedBackoff ==
    /\ emb.calls <= EmbedMaxRetries
    /\ Len(emb.waits) <= EmbedMaxRetries - 1
    /\ \A i \in 1..Len(emb.waits) : \A j \in 1..Len(emb.waits) :
          i < j => emb.waits[i] <= emb.waits[j]
    /\ (emb.pc = "threw" /\ isRateLimit(emb.thrown))
       => /\ emb.calls = EmbedMaxRetries
          /\ emb.thrown = emb.lastError
          /\ emb.thrown.attempt = EmbedMaxRetries - 1

\* Five rate-limited attempts, the first wait with the largest jitter and the
\* second with none.
C16_Witness ==
    /\ emb.pc = "threw" /\ isRateLimit(emb.thrown)
    /\ Len(emb.waits) = EmbedMaxRetries - 1
    /\ emb.waits[1] = 1000 + JitterLimit - 1
    /\ emb.waits[2] = 2000

\* C13: "no mapping row" and "the lookup failed" are distinguishable, so that
\* generateAutoResponse answers noDocuments only when no mapping is configured:
\* a run that answers noDocuments had no lookup end in a connection or query
\* error.
C13_LookupFailureDistinct ==
    (ga.pc = "done" /\ ga.result.noDocuments) => ~ga.failedLookup

\* C14: a read through retrySupabaseQuery invokes the remote query at most 3
\* times in all, sleeping attempt * 1000 ms after failed attempt `attempt`.
C14_AtMostThreeQueries ==
    /\ ga.q.calls <= maxRetries
    /\ \A i \in 1..Len(ga.q.sleeps) : ga.q.sleeps[i] = i * 1000

\* C17: when getDataSourceForPhone yields no data source, generateAutoResponse
\* returns {success: false, noDocuments: true} and has called neither the
\* embedding provider, the retrieval engine, the generation provider nor the
\* messaging collaborator.
C17_NoDataSource ==
    ga.dataSource = Null
    => /\ ga.pc = "done"
       /\ ~ga.result.success /\ ga.result.noDocuments
       /\ ga.result.sent = "absent" /\ ga.result.response = Null
       /\ ga.embedCalls = 0 /\ ga.retrievalCalls = 0
       /\ ga.generateCalls = 0 /\ ga.sendCalls = 0
       /\ whatsapp_messages.outbound = <<>>

\* The business number has no mapping row and the run has returned.
C17_Witness ==
    ga.pc = "done" /\ ga.dataSource = Null /\ ~mapping.exists /\ ~ga.failedLookup

\* C18: when generation succeeded and delivery failed, the result is
\* sent: false with the generated text, and the originating message carries
\* auto_respond_sent = false with response_sent_at set.
C18_DeliveryFailure ==
    (ga.pc = "done" /\ ga.sendResult = "failed")
    => /\ ~ga.result.success /\ ga.result.sent = "false"
       /\ ga.response # Null /\ ga.result.response = ga.response
       /\ "markFailed" \notin whatsapp_messages.rejected
          => /\ whatsapp_messages.orig.auto_respond_sent = "false"
             /\ whatsapp_messages.orig.response_sent_at # Null
       /\ whatsapp_messages.outbound = <<>>

\* The reply was generated, the delivery failed and the run has returned.
C18_Witness ==
    ga.pc = "done" /\ ga.sendResult = "failed" /\ ga.generateCalls = 1

\* C19: the originating message is marked auto_respond_sent = true only once
\* the reply is stored as an MtMessage row from the business number to the
\* customer number, the run then returns {success: true, sent: true}, and no
\* reply row is ever stored unless the delivery succeeded.
C19_ReplyStoredThenMarked ==
    [][/\ (whatsapp_messages'.orig.auto_respond_sent = "true"
           /\ whatsapp_messages.orig.auto_respond_sent # "true")
          => /\ "storeReply" \notin whatsapp_messages.rejected
                => whatsapp_messages.outbound =
                      <<[from_number |-> "business", to_number |-> "customer",
                         content_text |-> ga.response, event_type |-> "MtMessage"]>>
             /\ ga.pc = "markResponded"
             /\ ga.response # Null
             /\ ga'.pc = "done"
       /\ Len(whatsapp_messages'.outbound) > 0 => ga'.sendResult = "ok"
       /\ (ga'.pc = "done" /\ ga'.sendResult = "ok")
          => /\ ga'.result.success /\ ga'.result.sent = "true"
             /\ ga'.result.response = ga'.response
             /\ whatsapp_messages'.rejected = {}
                => /\ whatsapp_messages'.orig.auto_respond_sent = "true"
                   /\ Len(whatsapp_messages'.outbound) = 1]_vars

\* The reply was delivered, stored and the originating message marked.
C19_Witness ==
    /\ ga.pc = "done" /\ ga.result.sent = "true"
    /\ Len(whatsapp_messages.outbound) = 1
    /\ whatsapp_messages.orig.auto_respond_sent = "true"

\* C20: the history put in the prompt is the most recent 10 turns of the last
\* 20 messages of the conversation (those with the latest received_at), in
\* chronological order.
C20_RecentTurns ==
    ga.historyLoaded
    => ga.history =
          Last(SelectSeq(Last([i \in 1..whatsapp_messages.rows |-> i], HistoryLimit),
                         LAMBDA m : m \notin whatsapp_messages.noText),
               PromptTurns)

\* C21: generateAutoResponse always ends by returning a result object,
\* whichever collaborator failed, and every result with success: false carries
\* an error string.
C21_FailureIsAResult ==
    /\ ga.pc \in {"idle", "dataSource", "mappings", "embed", "shopifyStore",
                  "filesAndCalls", "search", "history", "generate", "send",
                  "markFailed", "storeReply", "markResponded", "done"}
    /\ ga.pc # "done" => ga.result = NoResult
    /\ (ga.pc = "done" /\ ~ga.result.success) => ga.result.error # "none"
    /\ (ga.pc = "done" /\ ga.result.success) => ga.result.error = "none"

\* The generation provider threw and the run returned the failure.
C21_Witness ==
    ga.pc = "done" /\ ~ga.result.success /\ ga.result.error = "groq"

\* C22: a run whose embedding, retrieval or generation step failed returns a
\* failed result and has sent no WhatsApp message; a run that has sent none has
\* inserted or updated no whatsapp_messages row.
C22_NoPartialState ==
    /\ ga.result.error \in {"embedText", "Failed to generate embedding for message",
                            "match_documents", "groq", "No response generated from LLM"}
       => (ga.pc = "done" /\ ~ga.result.success /\ ga.sendCalls = 0)
    /\ ga.sendCalls = 0
       => /\ ga.result.sent = "absent" /\ ga.result.response = Null
          /\ whatsapp_messages.outbound = <<>>
          /\ whatsapp_messages.orig = [auto_respond_sent |-> Null, response_sent_at |-> Null]

\* The similarity search threw after the query was embedded.
C22_Witness ==
    /\ ga.pc = "done" /\ ga.result.error = "match_documents"
    /\ ga.embedCalls = 1 /\ ga.retrievalCalls = 1 /\ ga.generateCalls = 0

\* C23: in one pass of the poller the selected calls are processed
\* independently and the pass responds only after all of them have settled.
\* The runs of a pass are on distinct calls; a step of a run changes no other
\* run's record and no row of another call, so an exception or a failed status
\* in one run leaves every other run where it was; every unfinished run of the
\* pass has a step it can take whatever the others did; and a pass leaves the
\* waiting passes only in a step after which all its runs have returned.
Active(r) == runs[r].pc \notin {"none", "done"}

RowsOf(c) == <<status[c], error_reason[c], chunk_count[c], call_transcripts[c],
               call_classifications[c], rag_chunks[c], phone_call_mapping[c]>>

C23_StepOfOneRun ==
    \A r \in RunIds :
        (Active(r) /\ runs'[r] # runs[r])
        => /\ \A x \in RunIds \ {r} : runs'[x] = runs[x]
           /\ \A c \in Calls \ {runs[r].call} : RowsOf(c)' = RowsOf(c)

C23_RespondsAfterAll ==
    \A P \in polls : P \notin polls' => \A x \in P : runs'[x].pc = "done"

C23_IndependentRuns ==
    /\ [][C23_StepOfOneRun /\ C23_RespondsAfterAll]_vars
    /\ [](\A P \in polls :
            /\ \A x, y \in P :
                  (Active(x) /\ Active(y) /\ runs[x].call = runs[y].call) => x = y
            /\ \A x \in P : Active(x) => ENABLED processCall(x)
            /\ \E x \in P : Active(x))

\* One run of a pass of two has thrown, the other is about to store 11za_related.
C23_Witness ==
    /\ {1, 2} \in polls
    /\ runs[1].pc = "catch"
    /\ runs[2].pc = "setFinal" /\ runs[2].finalStatus = "11za_related"

\* C24: a call in status 'uploaded' is processed by at most one poller
\* invocation. No two runs started by the poller on the same call have both
\* got a transcription back from the speech-to-text service.
Transcribed(r) ==
    runs[r].pc \in {"setClassifying", "classify", "saveTranscript", "saveClassification",
                    "setChunking", "chunk", "embed", "insertChunks", "setChunkCount",
                    "setFinal"}

C24_ProcessedOnce ==
    \A x, y \in RunIds :
        (/\ x # y
         /\ runs[x].kind = "poll" /\ runs[y].kind = "poll"
         /\ runs[x].call = runs[y].call)
        => ~(Transcribed(x) /\ Transcribed(y))

\* C25: every call whose stored status is '11za_related' has a
\* phone_call_mapping row, whichever path ingested it.
C25_RelevantCallMapped ==
    \A c \in Calls : status[c] = "11za_related" => phone_call_mapping[c] > 0

\* C26: no status write of the pipeline is rejected by the store. Whenever a
\* run of either path takes a step that updates call_recordings.status of an
\* existing row, the row holds the written value after the step.
StatusWritten(r) ==
    CASE runs[r].pc = "setTranscribing" -> "transcribing"
      [] runs[r].pc = "setClassifying" -> "classifying"
      [] runs[r].pc = "setChunking" -> "chunking"
      [] runs[r].pc = "setFinal" -> runs[r].finalStatus
      [] runs[r].pc = "catch" -> "failed"
      [] OTHER -> "none"

C26_StatusWritesAccepted ==
    [][\A r \in RunIds :
          (/\ StatusWritten(r) # "none"
           /\ runs'[r] # runs[r]
           /\ status[runs[r].call] # "absent")
          => status'[runs[r].call] = StatusWritten(r)]_vars

\* C27: within one processCall run the stored status of the call moves only
\* forward along uploaded, transcribing, classifying, chunking, terminal, and
\* the stages follow each other: classification starts only after the
\* speech-to-text call has returned, chunking and embedding only after the
\* classification has returned.
StageRank(s) ==
    CASE s = "uploaded" -> 0
      [] s = "transcribing" -> 1
      [] s = "classifying" -> 2
      [] s = "chunking" -> 3
      [] OTHER -> 4

C27_StatusForward ==
    \A r \in RunIds :
        (/\ IsWorkerRun(r) /\ runs'[r] # runs[r]
         /\ status'[runs[r].call] # status[runs[r].call])
        => StageRank(status'[runs[r].call]) > StageRank(status[runs[r].call])

C27_StagesInSequence ==
    \A r \in RunIds :
        (IsWorkerRun(r) /\ runs'[r].pc # runs[r].pc)
        => /\ runs'[r].pc = "setClassifying" => runs[r].pc = "transcribe"
           /\ runs'[r].pc = "classify" => runs[r].pc = "setClassifying"
           /\ runs'[r].pc = "setChunking"
              => runs[r].pc = "saveClassification" /\ runs[r].classifyCalls = 1
           /\ runs'[r].pc = "chunk" => runs[r].pc = "setChunking"
           /\ runs'[r].pc = "embed" => runs[r].pc = "chunk"

C27_ForwardOnly == [][C27_StatusForward /\ C27_StagesInSequence]_vars

\* C28: in both ingestion paths the stored status names the stage the call is
\* in: it is 'transcribing' while the speech-to-text call is outstanding,
\* 'classifying' while the classifier call is outstanding and 'chunking' while
\* the transcript is chunked, embedded and its chunks are inserted.
C28_StatusNamesStage ==
    \A r \in RunIds :
        /\ runs[r].pc = "transcribe" => status[runs[r].call] = "transcribing"
        /\ runs[r].pc = "classify" => status[runs[r].call] = "classifying"
        /\ runs[r].pc \in {"chunk", "embed", "insertChunks"}
           => status[runs[r].call] = "chunking"

\* C29: a call enters the chunking stage and gets rag_chunks rows only if it
\* was classified relevant and neither blank nor spam. A run of either path
\* that goes on to chunking, writes 'chunking' or inserts chunks holds such a
\* classification, and a call whose stored status is blank, spam, irrelevant
\* or approved has no rag_chunks row.
Relevant(cls) == cls.is11zaRelated /\ ~cls.isBlank /\ ~cls.isSpam

C29_RunChunksIfRelevant ==
    \A r \in RunIds :
        (/\ Active(r) /\ runs'[r] # runs[r]
         /\ \/ /\ runs'[r].pc \in {"setChunking", "chunk", "embed", "insertChunks"}
               /\ runs'[r].pc # runs[r].pc
            \/ rag_chunks'[runs[r].call] # rag_chunks[runs[r].call]
            \/ /\ status'[runs[r].call] = "chunking"
               /\ status[runs[r].call] # "chunking")
        => Relevant(runs[r].cls)

C29_NoChunksUnlessRelevant ==
    \A c \in Calls :
        status[c] \in {"blank", "spam", "irrelevant", "approved"} => rag_chunks[c] = 0

C29_ChunksOnlyIfRelevant ==
    [][C29_RunChunksIfRelevant]_vars /\ []C29_NoChunksUnlessRelevant

\* C30: a pass of the poller starts only calls whose stored status is
\* 'uploaded', at most 5 of them, the oldest first: the started calls are in
\* upload order, none is started twice, and an uploaded call is left out only
\* when 5 older ones were started.
C30_OldestUploaded ==
    p_pass = "started"
    => /\ Len(p_started) <= 5
       /\ \A i \in 1..Len(p_started) : p_status[p_started[i]] = "uploaded"
       /\ \A i, j \in 1..Len(p_started) : i < j => p_started[i] < p_started[j]
       /\ \A c \in PollCalls :
             (p_status[c] = "uploaded" /\ \A i \in 1..Len(p_started) : p_started[i] # c)
             => /\ Len(p_started) = 5
                /\ \A i \in 1..Len(p_started) : p_started[i] < c

\* Seven rows, the oldest already being transcribed and the other six
\* uploaded: the pass starts five and leaves the newest for the next pass.
C30_Witness ==
    /\ p_pass = "started"
    /\ p_status[1] = "transcribing"
    /\ p_started = <<2, 3, 4, 5, 6>>
    /\ p_status[7] = "uploaded"

\* C31: after any sequence of runs and manual retries a call has at most one
\* call_transcripts row, at most one call_classifications row, no two
\* rag_chunks rows with the same chunk index (no more rows than one run
\* produces), and a null error_reason whenever its status is not 'failed'.
C31_RetryReplaces ==
    \A c \in Calls :
        /\ call_transcripts[c] <= 1
        /\ call_classifications[c] <= 1
        /\ rag_chunks[c] <= MaxChunks
        /\ status[c] # "failed" => error_reason[c] = Null

\* C32: whenever generateAutoResponse returns noDocuments: true, neither the
\* embedding provider nor the generation provider was called in that invocation.
C32_NoDocumentsFailsFast ==
    (ga.pc = "done" /\ ga.result.noDocuments)
    => ga.embedCalls = 0 /\ ga.generateCalls = 0

\* C38: if the mapping row of the business number lacks auth_token or origin,
\* generateAutoResponse returns success: false before any embedding,
\* retrieval, generation or delivery call is made.
C38_NoCredentialsFailsFirst ==
    (ga.pc # "idle" /\ mapping.exists /\ ~mapping.credentials)
    => /\ ga.pc \in {"dataSource", "mappings", "done"}
       /\ ga.embedCalls = 0 /\ ga.retrievalCalls = 0
       /\ ga.generateCalls = 0 /\ ga.sendCalls = 0
       /\ ga.pc = "done" => ~ga.result.success

C38_Witness ==
    /\ ga.pc = "done" /\ mapping.exists /\ ~mapping.credentials
    /\ ga.result.error = "No WhatsApp API credentials found"

\* C39: after a successful delivery the outcome does not depend on the writes
\* that follow it: whether or not the store took the reply row and the
\* responded mark, generateAutoResponse goes through both writes and returns
\* success: true, sent: true with the response text.
C39_BestEffortWrites ==
    /\ (ga.sendResult = "ok" /\ ga.pc # "done")
       => ga.pc \in {"storeReply", "markResponded"} /\ ga.result = NoResult
    /\ (ga.sendResult = "ok" /\ ga.pc = "done")
       => /\ ga.result.success /\ ga.result.sent = "true"
          /\ ga.result.error = "none"
          /\ ga.response # Null /\ ga.result.response = ga.response

\* The delivery succeeded, both writes were answered with an error and the
\* run has returned.
C39_Witness ==
    /\ ga.pc = "done" /\ ga.sendResult = "ok"
    /\ whatsapp_messages.rejected = {"storeReply", "markResponded"}

\* C34: for a non-empty callIds and an empty fileIds,
\* retrieveRelevantChunksForPhone returns the `limit` most similar chunks among
\* the chunks of the requested calls that the index holds (all of them when
\* there are fewer), however many chunks of other calls the index holds.
C34_IndexedCallChunks ==
    Rows("call", [k \in 1..Len(r_callChunks) |->
                     <<r_callChunks[k].similarity, r_callChunks[k].source_id>>]
                 \o r_beyond)

C34_Requested == FilterCalls(C34_IndexedCallChunks, r_callIds)

C34_RequestedNotStarved ==
    (r_fn = "phone" /\ ~r_threw /\ Len(r_fileIds) = 0 /\ Len(r_callIds) > 0)
    => /\ Len(r_result) = (IF Len(C34_Requested) < r_limit
                           THEN Len(C34_Requested) ELSE r_limit)
       /\ Range(r_result) \subseteq Range(C34_Requested)
       /\ \A x \in Range(C34_Requested) \ Range(r_result) : \A y \in Range(r_result) :
             x.similarity <= y.similarity

\* C37: the merge of retrieveRelevantChunksForPhone is stable. The matches are
\* collected document by document in fileIds order, then the call matches, and
\* two returned matches of equal similarity keep the order in which they were
\* collected.
C37_Collected(x) == CHOOSE i \in 1..Len(r_all) : r_all[i] = x

C37_StableMerge ==
    (r_fn = "phone" /\ ~r_threw)
    => /\ \A i, j \in 1..Len(r_all) :
             i < j => /\ r_all[i].id # r_all[j].id
                      /\ r_all[j].source_type = "pdf" => r_all[i].source_type = "pdf"
                      /\ (r_all[i].source_type = "pdf" /\ r_all[j].source_type = "pdf")
                         => \E a, b \in 1..Len(r_fileIds) :
                               /\ a <= b
                               /\ r_fileIds[a] = r_all[i].source_id
                               /\ r_fileIds[b] = r_all[j].source_id
       /\ \A i, j \in 1..Len(r_result) :
             (i < j /\ r_result[i].similarity = r_result[j].similarity)
             => C37_Collected(r_result[i]) < C37_Collected(r_result[j])

\* A document match and a call match of equal similarity are both returned.
C37_Witness ==
    /\ r_fn = "phone" /\ ~r_threw
    /\ Len(r_result) = 2
    /\ r_result[1].similarity = r_result[2].similarity
    /\ r_result[1].source_type = "pdf" /\ r_result[2].source_type = "call"
    /\ Len(r_all) > 2

\* C35: an error of embedText that is not a rate-limit error is not retried.
\* The attempt that meets it throws that very error, with no wait added and
\* nothing put into the cache; when it is the first error of the invocation,
\* exactly one attempt was made and there was no wait at all.
C35_OtherErrorStep ==
    (emb.pc = "attempt" /\ emb'.lastError # emb.lastError /\ emb'.lastError.kind = "other")
    => /\ emb'.pc = "threw"
       /\ emb'.thrown = emb'.lastError
       /\ emb'.calls = emb.calls + 1
       /\ emb'.waits = emb.waits
       /\ embeddingCache' = embeddingCache

C35_OtherErrorThrown ==
    (emb.pc = "threw" /\ emb.thrown.kind = "other")
    => /\ emb.calls = emb.thrown.attempt + 1
       /\ Len(emb.waits) = emb.thrown.attempt
       /\ embeddingCache[emb.text] = NoVector
       /\ ~emb.hit /\ emb.result = NoVector

C35_PermanentErrorNotRetried ==
    [][C35_OtherErrorStep]_vars /\ []C35_OtherErrorThrown

\* The first attempt met an error that is not a rate-limit error.
C35_Witness ==
    /\ emb.pc = "threw" /\ emb.thrown.kind = "other"
    /\ emb.thrown.attempt = 0 /\ emb.calls = 1 /\ emb.waits = <<>>

\* C33: when a catalog sync has failed, the chunks the store had when the sync
\* started are still in shopify_chunks and last_synced_at is what it was.
C33_FailedSyncKeepsOld ==
    sync.pc = "failed" =>
        /\ sync.before \subseteq shopify_chunks
        /\ last_synced_at = sync.beforeSynced

\* C36: within one run at most one embedding request is in flight, and no two
\* requests are issued without a delay between them.
C36_RequestsSerialized ==
    /\ Cardinality(eb.inflight) <= 1
    /\ eb.sinceDelay <= 1

\* How many times file f is reported in the response.
Reports(f) ==
    Cardinality({k \in 1..Len(bu.uploaded) : bu.uploaded[k] = f})
    + Cardinality({k \in 1..Len(bu.failed) : bu.failed[k] = f})

ReportedUploaded == {bu.uploaded[k] : k \in 1..Len(bu.uploaded)}

\* What the response of a bulk upload says of the files, whatever became of the
\* storage objects: every file is reported once, in `uploaded` exactly when its row
\* was created, which depends on the file's own validation, upload and insert
\* alone, and success is true exactly when `failed` is empty.
C40_Reported ==
    /\ \A f \in 1..Len(bu.files) :
         /\ Reports(f) = 1
         /\ f \in ReportedUploaded <=> f \in bu.rows
         /\ f \in bu.rows <=>
              (bu.files[f] = "audio" /\ f \notin bu.uploadFailed /\ f \notin bu.insertFailed)
    /\ bu.success <=> bu.failed = <<>>

\* C40 as stated: in the results response every file is reported once, a file is
\* in `uploaded` iff its row was created, a file whose insert failed has no object
\* in storage, a file's outcome depends on that file alone, and success is true iff
\* `failed` is empty.
C40_AsStated ==
    bu.response = "results" =>
        /\ C40_Reported
        /\ \A f \in bu.insertFailed : f \notin bu.objects

\* C40, amended: as stated, except that a file whose insert failed has no object
\* in storage provided the removal of the object succeeded; when the removal fails
\* the object stays and the file is reported failed all the same.
C40_ObjectRemovedUnlessRemovalFails ==
    bu.response = "results" =>
        /\ C40_Reported
        /\ \A f \in bu.insertFailed : f \in bu.objects <=> f \in bu.removeFailed

\* A response that reports an uploaded file, a file whose insert failed and whose
\* object was removed, and a file that failed validation.
C40_Witness ==
    /\ bu.response = "results"
    /\ bu.uploaded = <<1>>
    /\ bu.failed = <<2, 3>>
    /\ bu.insertFailed = {2}
    /\ bu.objects = {1}
    /\ bu.files[3] = "notAudio"
    /\ ~bu.success

====
